---- MODULE Spec2Model ----
(***************************************************************************)
(* Elevator simulation: one elevator controller (command loop + movement   *)
(* task on one asyncio event loop), the scheduler consuming the requests   *)
(* stream through a consumer group, and the scheduler's scoring function.  *)
(*                                                                         *)
(* Every action is one run of a coroutine between two suspension points    *)
(* (an await that really waits: broker/store I/O or a sleep).  A status    *)
(* message is built when _publish_status is called, a snapshot when        *)
(* _persist_state is called, so both are part of the step that calls them. *)
(* Consecutive sleeps with no statement between them are one suspension.   *)
(***************************************************************************)
EXTENDS Integers, Sequences, FiniteSets, TLC

\* ---------------------------------------------------------------- bounds
\* floors of the modelled building (NUM_FLOORS is read from the environment)
NUM_FLOORS == 3
\* commands delivered to the controller in one run
MaxCommands == 2
\* elevators of the building (NUM_ELEVATORS is read from the environment)
NUM_ELEVATORS == 2
\* requests appended to the stream in one run
MaxRequests == 2
\* times the scheduler process is started in one run
MaxStarts == 2
\* floors of the snapshots and requests given to the scoring function
MaxScoreFloor == 6
\* times the controller process is killed and started again in one run
MaxRestarts == 1
\* request objects constructed in one run
MaxObjects == 2
\* entries of the stream that trim is called on
MaxTrimLen == 3
\* number of internal requests of one elevator in the ordering scenario
MaxOrderRequests == 3

\* -------------------------------------------------------------- constants
MAX_RETRIES == 3

\* ------------------------------------------------------- elevator model
IDLE == "idle"
MOVING_UP == "moving_up"
MOVING_DOWN == "moving_down"
OPEN == "open"
CLOSED == "closed"

ElevatorStatus == {IDLE, MOVING_UP, MOVING_DOWN}
DoorStatus == {OPEN, CLOSED}

VARIABLES
  \* ElevatorController.elevator
  current_floor, status, door_status, destinations,
  \* ElevatorController._running, ._movement_task
  running, movement_task,
  \* position of the command loop, and the command it is handling
  cpc,
  \* position of the movement task and its local next_floor
  mpc, next_floor,
  \* messages published on elevator:status:{id}, in order
  status_pubs,
  \* value stored at key elevator:status:{id}
  store_state,
  \* commands received so far, in order
  cmd_log,
  \* history: movement tasks created and not yet ended or cancelled
  live_tasks,
  \* history: restarts of the controller process, and the number of commands
  \* that had been received when it was last restarted
  restarts, cmds_at_restart,
  \* the controller's pub/sub connection is subscribed to its command topic
  subscribed,
  \* broker: entries of elevator:requests:stream (entry i has stream id i)
  stream,
  \* broker: scheduler-group exists, its last-delivered id, the pending
  \* entries list of the consumer scheduler-{id}, the acknowledged entries
  group_exists, last_delivered, pel, acked,
  \* state store: the snapshots at elevator:status:1..N (None when absent)
  cache_store,
  \* Scheduler.elevator_states
  elevator_states,
  \* position of Scheduler.start, and which pass it is in ("0" or ">")
  spc, phase,
  \* readgroup_with_ack: attempt, entries_to_ack, whether it has yielded
  attempt, entries_to_ack, yielded,
  \* the batch yielded to the body of the with block, next message to handle
  batch, bpos,
  \* messages published on elevator:commands:{id}, in order
  cmd_pubs,
  \* history: number of starts of the scheduler; for every entry how often
  \* _handle_message ran for it and whether its last run raised; the entries
  \* handled in the current with block; the pending list found at start
  starts, handled, failed, handled_now, pel_at_start,
  \* history: the length of the stream when the group was created
  group_created_at,
  \* a request object handed directly to the scheduler's handlers, the
  \* position of that call, and the result of the selection
  h_request, h_pc, selected,
  \* the request objects built by constructor calls, in order
  objects,
  \* the last call of trim: its arguments and its outcome
  trim_call,
  \* pub/sub broker: for every message of cmd_pubs it has routed, the start
  \* of the controller whose connection received it (-1: no subscriber)
  routed,
  \* the last message of cmd_pubs the controller took from its connection
  received,
  \* a stop() called from outside the command loop: its position
  stop_pc,
  \* scheduler supervisor: shutdown_event, position of main(), and whether
  \* the cache, event stream and pub/sub adapters were closed
  shutdown_event, sup_pc, adapters_closed,
  \* a second scheduler instance of the group (consumer scheduler-2): it is
  \* running, and its pending entries list
  peer_alive, peer_pel

ctlVars == <<current_floor, status, door_status, destinations, running,
             movement_task, cpc, mpc, next_floor, status_pubs, store_state,
             cmd_log, live_tasks, restarts, cmds_at_restart, subscribed>>

schVars == <<stream, group_exists, last_delivered, pel, acked, cache_store,
             elevator_states, spc, phase, attempt, entries_to_ack, yielded,
             batch, bpos, cmd_pubs, starts, handled, failed, handled_now,
             pel_at_start, group_created_at>>

hVars == <<h_request, h_pc, selected>>

xVars == <<objects, trim_call, routed, received, stop_pc, shutdown_event,
           sup_pc, adapters_closed, peer_alive, peer_pel>>

vars == <<ctlVars, schVars, hVars, xVars>>

\* membership test of Elevator.add_destination
InQueue(floor, q) == \E i \in 1..Len(q) : q[i] = floor

\* mutant: a floor already queued is queued again
ElevatorAddDestination_Again(floor, cur, q) ==
  IF floor # cur THEN Append(q, floor) ELSE q

\* Elevator.add_destination: append unless current floor or already queued
ElevatorAddDestination(floor, cur, q) ==
  IF floor # cur /\ ~InQueue(floor, q) THEN Append(q, floor) ELSE q

\* Elevator.to_dict (id omitted: one elevator per controller)
to_dict(cur, st, door, q) ==
  [current_floor |-> cur, status |-> st, door_status |-> door,
   destinations |-> q]

\* the message of _publish_status, built from the elevator at call time
StatusMessage(cur, st, door, q) == to_dict(cur, st, door, q)

\* JSON objects that can arrive on elevator:commands:{id}
Commands ==
  [command : {"go_to_floor", "add_destination"}, floor : 0..(NUM_FLOORS + 1)]
    \cup {[command |-> "invalid_command", floor |-> 1]}

\* a payload that is not a JSON object
NotJson == [raw |-> "not json"]

Payloads == Commands \cup {NotJson}

\* RedisPubSubBackend._decode_message: the parsed object, or the payload
\* wrapped as {"data": payload} when it does not parse to an object
DecodeMessage(payload) ==
  IF "raw" \in DOMAIN payload THEN [data |-> payload.raw] ELSE payload

\* dict.get(key): None for a missing key (none stands for None among the
\* values of that key)
DictGet(d, key, none) == IF key \in DOMAIN d THEN d[key] ELSE none

ValidFloor(floor) == floor >= 1 /\ floor <= NUM_FLOORS

\* ------------------------------------------------------------ controller
\* Elevator.__init__ / ElevatorController.__init__ and start():
\* the snapshot loaded at start is an idle elevator at some floor.
CtlInit ==
  /\ current_floor \in 1..NUM_FLOORS
  /\ status = IDLE
  /\ door_status = CLOSED
  /\ destinations = <<>>
  /\ running = TRUE
  /\ movement_task = "none"
  /\ cpc = "get_message"
  /\ mpc = "none"
  /\ next_floor = 0
  /\ status_pubs = <<>>
  /\ store_state = to_dict(current_floor, IDLE, CLOSED, <<>>)
  /\ cmd_log = <<>>
  /\ live_tasks = 0
  /\ restarts = 0
  /\ cmds_at_restart = 0
  /\ subscribed = TRUE

\* open_door up to its first await: no-op if already open, else set OPEN and
\* publish.  Returns to pcOpen when it published, to pcSkip when it returned
\* at once (the caller then sleeps 2s).
OpenDoorStep(pcVar, pcOpen, pcSkip) ==
  IF door_status = OPEN
  THEN /\ pcVar' = pcSkip
       /\ UNCHANGED <<door_status, status_pubs>>
  ELSE /\ door_status' = OPEN
       /\ status_pubs' = Append(status_pubs,
            StatusMessage(current_floor, status, OPEN, destinations))
       /\ pcVar' = pcOpen

\* _persist_state: cache.set(key, json.dumps(elevator.to_dict()))
PersistState ==
  store_state' = to_dict(current_floor, status, door_status, destinations)

\* mutant: the door is closed without a status publication
CloseDoorPublish_Silent ==
  /\ door_status' = CLOSED
  /\ UNCHANGED status_pubs

\* close_door up to its first await: no-op if already closed
CloseDoorPublish ==
  /\ door_status' = CLOSED
  /\ status_pubs' = Append(status_pubs,
       StatusMessage(current_floor, status, CLOSED, destinations))

\* the door cycle of go_to_floor / add_destination when the floor is the
\* current floor: open_door(); sleep(2); close_door()
DoorCycleStart ==
  /\ OpenDoorStep(cpc, "open_pub", "dwell")
  /\ UNCHANGED <<current_floor, status, destinations, running,
                 movement_task, mpc, next_floor, store_state>>

\* ElevatorController.add_destination up to its first await
AddDestinationStart(floor) ==
  IF ~ValidFloor(floor)
  THEN UNCHANGED <<current_floor, status, door_status, destinations,
                   running, movement_task, cpc, mpc, next_floor,
                   status_pubs, store_state>>
  ELSE IF floor = current_floor
  THEN DoorCycleStart
  ELSE /\ destinations' =
            ElevatorAddDestination(floor, current_floor, destinations)
       /\ status_pubs' = Append(status_pubs,
            StatusMessage(current_floor, status, door_status, destinations'))
       /\ cpc' = "add_pub"
       /\ UNCHANGED <<current_floor, status, door_status, running,
                      movement_task, mpc, next_floor, store_state>>

\* ElevatorController.go_to_floor up to its first await.  An invalid floor
\* raises ValueError, which _handle_command does not catch: start() leaves its
\* loop and its finally clause runs stop().
GoToFloorStart(floor) ==
  IF ~ValidFloor(floor)
  THEN /\ running' = FALSE
       /\ cpc' = "stopping"
       /\ UNCHANGED <<current_floor, status, door_status, destinations,
                      movement_task, mpc, next_floor, status_pubs,
                      store_state>>
  ELSE IF floor = current_floor
  THEN DoorCycleStart
  ELSE AddDestinationStart(floor)

\* mutant: a command that is neither go_to_floor nor add_destination ends
\* the command loop
HandleCommand_Strict ==
  /\ cpc = "get_message"
  /\ Len(cmd_log) < MaxCommands
  /\ \E payload \in Payloads :
       LET data == DecodeMessage(payload)
           c == [command |-> DictGet(data, "command", "None"),
                 floor |-> DictGet(data, "floor", -1)]
       IN /\ cmd_log' = Append(cmd_log, c)
          /\ IF c.command = "go_to_floor" THEN GoToFloorStart(c.floor)
             ELSE IF c.command = "add_destination"
             THEN AddDestinationStart(c.floor)
             ELSE /\ running' = FALSE
                  /\ cpc' = "stopping"
                  /\ UNCHANGED <<current_floor, status, door_status,
                                 destinations, movement_task, mpc,
                                 next_floor, status_pubs, store_state>>
  /\ UNCHANGED <<live_tasks, restarts, cmds_at_restart, subscribed>>
  /\ UNCHANGED <<schVars, hVars, xVars>>

\* start() loop: get_message returned a command; _handle_command dispatches
HandleCommand ==
  /\ cpc = "get_message"
  /\ Len(cmd_log) < MaxCommands
  /\ \E payload \in Payloads :
       LET data == DecodeMessage(payload)
           c == [command |-> DictGet(data, "command", "None"),
                 floor |-> DictGet(data, "floor", -1)]
       IN /\ cmd_log' = Append(cmd_log, c)
          /\ IF c.command = "go_to_floor" THEN GoToFloorStart(c.floor)
             ELSE IF c.command = "add_destination"
             THEN AddDestinationStart(c.floor)
             ELSE UNCHANGED <<current_floor, status, door_status,
                              destinations, running, movement_task, cpc, mpc,
                              next_floor, status_pubs, store_state>>
  /\ UNCHANGED <<live_tasks, restarts, cmds_at_restart, subscribed>>
  /\ UNCHANGED <<schVars, hVars, xVars>>

\* mutant: a movement task is created whether or not one is running
AddDestinationFinish_Always ==
  /\ cpc = "add_pub"
  /\ movement_task' = "task"
  /\ mpc' = "created"
  /\ live_tasks' = live_tasks + 1
  /\ cpc' = "get_message"
  /\ UNCHANGED <<current_floor, status, door_status, destinations, running,
                 next_floor, status_pubs, store_state, cmd_log>>
  /\ UNCHANGED <<restarts, cmds_at_restart, subscribed>>
  /\ UNCHANGED <<schVars, hVars, xVars>>

\* add_destination after its publish: start the movement task if none runs
AddDestinationFinish ==
  /\ cpc = "add_pub"
  /\ IF movement_task = "none" \/ mpc = "none"
     THEN /\ movement_task' = "task"
          /\ mpc' = "created"
          /\ live_tasks' = live_tasks + 1
     ELSE UNCHANGED <<movement_task, mpc, live_tasks>>
  /\ cpc' = "get_message"
  /\ UNCHANGED <<current_floor, status, door_status, destinations, running,
                 next_floor, status_pubs, store_state, cmd_log>>
  /\ UNCHANGED <<restarts, cmds_at_restart, subscribed>>
  /\ UNCHANGED <<schVars, hVars, xVars>>

\* command loop, open_door after its publish: persist, then sleep
CmdOpenPersist ==
  /\ cpc = "open_pub"
  /\ PersistState
  /\ cpc' = "dwell"
  /\ UNCHANGED <<current_floor, status, door_status, destinations, running,
                 movement_task, mpc, next_floor, status_pubs, cmd_log>>
  /\ UNCHANGED <<live_tasks, restarts, cmds_at_restart, subscribed>>
  /\ UNCHANGED <<schVars, hVars, xVars>>

\* command loop, after the dwell: close_door
CmdCloseDoor ==
  /\ cpc = "dwell"
  /\ IF door_status = CLOSED
     THEN /\ cpc' = "get_message"
          /\ UNCHANGED <<door_status, status_pubs>>
     ELSE /\ CloseDoorPublish
          /\ cpc' = "close_pub"
  /\ UNCHANGED <<current_floor, status, destinations, running,
                 movement_task, mpc, next_floor, store_state, cmd_log>>
  /\ UNCHANGED <<live_tasks, restarts, cmds_at_restart, subscribed>>
  /\ UNCHANGED <<schVars, hVars, xVars>>

\* command loop, close_door after its publish: persist, then sleep
CmdClosePersist ==
  /\ cpc = "close_pub"
  /\ PersistState
  /\ cpc' = "close_sleep"
  /\ UNCHANGED <<current_floor, status, door_status, destinations, running,
                 movement_task, mpc, next_floor, status_pubs, cmd_log>>
  /\ UNCHANGED <<live_tasks, restarts, cmds_at_restart, subscribed>>
  /\ UNCHANGED <<schVars, hVars, xVars>>

\* command loop, close_door returns and the handler with it
CmdCloseDone ==
  /\ cpc = "close_sleep"
  /\ cpc' = "get_message"
  /\ UNCHANGED <<current_floor, status, door_status, destinations, running,
                 movement_task, mpc, next_floor, status_pubs, store_state,
                 cmd_log>>
  /\ UNCHANGED <<live_tasks, restarts, cmds_at_restart, subscribed>>
  /\ UNCHANGED <<schVars, hVars, xVars>>

\* stop() after unsubscribe/close: cancel the movement task and await it.
\* A task cancelled before its first step never runs its finally clause.
StopCancel ==
  /\ cpc = "stopping"
  /\ cpc' = "stopped"
  /\ IF movement_task = "task" /\ mpc \notin {"none", "created"}
     THEN movement_task' = "none"
     ELSE UNCHANGED movement_task
  /\ mpc' = "none"
  /\ live_tasks' = IF mpc # "none" THEN live_tasks - 1 ELSE live_tasks
  /\ subscribed' = FALSE
  /\ UNCHANGED <<current_floor, status, door_status, destinations, running,
                 next_floor, status_pubs, store_state, cmd_log>>
  /\ UNCHANGED <<restarts, cmds_at_restart>>
  /\ UNCHANGED <<schVars, hVars, xVars>>

\* --------------------------------------------------------- movement task
\* _process_movement, head of the while loop up to the first await: leave the
\* loop (finally: _movement_task = None) or pop the next floor, set the
\* direction and publish
MovementLoop ==
  IF running /\ destinations # <<>>
  THEN /\ next_floor' = Head(destinations)
       /\ destinations' = Tail(destinations)
       /\ status' = IF Head(destinations) > current_floor THEN MOVING_UP
                    ELSE IF Head(destinations) < current_floor
                    THEN MOVING_DOWN
                    ELSE status
       /\ status_pubs' = Append(status_pubs,
            StatusMessage(current_floor, status', door_status, destinations'))
       /\ mpc' = "depart_pub"
       /\ UNCHANGED <<movement_task, live_tasks>>
  ELSE /\ movement_task' = "none"
       /\ mpc' = "none"
       /\ live_tasks' = live_tasks - 1
       /\ UNCHANGED <<next_floor, destinations, status, status_pubs>>

\* the task created by add_destination runs for the first time
MoveStart ==
  /\ mpc = "created"
  /\ MovementLoop
  /\ UNCHANGED <<current_floor, door_status, running, cpc, store_state,
                 cmd_log>>
  /\ UNCHANGED <<restarts, cmds_at_restart, subscribed>>
  /\ UNCHANGED <<schVars, hVars, xVars>>

\* after the departure publish: persist, then sleep for the travel time
MoveDepartPersist ==
  /\ mpc = "depart_pub"
  /\ PersistState
  /\ mpc' = "travel"
  /\ UNCHANGED <<current_floor, status, door_status, destinations, running,
                 movement_task, cpc, next_floor, status_pubs, cmd_log>>
  /\ UNCHANGED <<live_tasks, restarts, cmds_at_restart, subscribed>>
  /\ UNCHANGED <<schVars, hVars, xVars>>

\* mutant: the status is not reset on arrival
MoveArrive_StillMoving ==
  /\ mpc = "travel"
  /\ current_floor' = next_floor
  /\ status_pubs' = Append(status_pubs,
       StatusMessage(next_floor, status, door_status, destinations))
  /\ mpc' = "arrive_pub"
  /\ UNCHANGED <<status, door_status, destinations, running, movement_task,
                 cpc, next_floor, store_state, cmd_log>>
  /\ UNCHANGED <<live_tasks, restarts, cmds_at_restart, subscribed>>
  /\ UNCHANGED <<schVars, hVars, xVars>>

\* the travel sleep is over: arrive at next_floor, go idle, publish
MoveArrive ==
  /\ mpc = "travel"
  /\ current_floor' = next_floor
  /\ status' = IDLE
  /\ status_pubs' = Append(status_pubs,
       StatusMessage(next_floor, IDLE, door_status, destinations))
  /\ mpc' = "arrive_pub"
  /\ UNCHANGED <<door_status, destinations, running, movement_task, cpc,
                 next_floor, store_state, cmd_log>>
  /\ UNCHANGED <<live_tasks, restarts, cmds_at_restart, subscribed>>
  /\ UNCHANGED <<schVars, hVars, xVars>>

\* after the arrival publish: persist
MoveArrivePersist ==
  /\ mpc = "arrive_pub"
  /\ PersistState
  /\ mpc' = "arrive_persist"
  /\ UNCHANGED <<current_floor, status, door_status, destinations, running,
                 movement_task, cpc, next_floor, status_pubs, cmd_log>>
  /\ UNCHANGED <<live_tasks, restarts, cmds_at_restart, subscribed>>
  /\ UNCHANGED <<schVars, hVars, xVars>>

\* mutant: the movement task goes on to its dwell without opening the door
MoveOpenDoor_Skip ==
  /\ mpc = "arrive_persist"
  /\ mpc' = "dwell"
  /\ UNCHANGED <<door_status, status_pubs>>
  /\ UNCHANGED <<current_floor, status, destinations, running,
                 movement_task, cpc, next_floor, store_state, cmd_log>>
  /\ UNCHANGED <<live_tasks, restarts, cmds_at_restart, subscribed>>
  /\ UNCHANGED <<schVars, hVars, xVars>>

\* after the arrival persist: open_door
MoveOpenDoor ==
  /\ mpc = "arrive_persist"
  /\ OpenDoorStep(mpc, "open_pub", "dwell")
  /\ UNCHANGED <<current_floor, status, destinations, running,
                 movement_task, cpc, next_floor, store_state, cmd_log>>
  /\ UNCHANGED <<live_tasks, restarts, cmds_at_restart, subscribed>>
  /\ UNCHANGED <<schVars, hVars, xVars>>

\* movement task, open_door after its publish: persist, then sleep
MoveOpenPersist ==
  /\ mpc = "open_pub"
  /\ PersistState
  /\ mpc' = "dwell"
  /\ UNCHANGED <<current_floor, status, door_status, destinations, running,
                 movement_task, cpc, next_floor, status_pubs, cmd_log>>
  /\ UNCHANGED <<live_tasks, restarts, cmds_at_restart, subscribed>>
  /\ UNCHANGED <<schVars, hVars, xVars>>

\* mutant: the movement task does not close the door after the dwell
MoveCloseDoor_LeaveOpen ==
  /\ mpc = "dwell"
  /\ MovementLoop
  /\ UNCHANGED <<current_floor, door_status, running, cpc, store_state,
                 cmd_log>>
  /\ UNCHANGED <<restarts, cmds_at_restart, subscribed>>
  /\ UNCHANGED <<schVars, hVars, xVars>>

\* movement task, after the dwell: close_door; when the door is already
\* closed it returns without awaiting and the loop head runs at once
MoveCloseDoor ==
  /\ mpc = "dwell"
  /\ IF door_status = CLOSED
     THEN /\ MovementLoop
          /\ UNCHANGED door_status
     ELSE /\ CloseDoorPublish
          /\ mpc' = "close_pub"
          /\ UNCHANGED <<status, destinations, movement_task, next_floor,
                         live_tasks>>
  /\ UNCHANGED <<current_floor, running, cpc, store_state, cmd_log>>
  /\ UNCHANGED <<restarts, cmds_at_restart, subscribed>>
  /\ UNCHANGED <<schVars, hVars, xVars>>

\* movement task, close_door after its publish: persist, then sleep
MoveClosePersist ==
  /\ mpc = "close_pub"
  /\ PersistState
  /\ mpc' = "close_sleep"
  /\ UNCHANGED <<current_floor, status, door_status, destinations, running,
                 movement_task, cpc, next_floor, status_pubs, cmd_log>>
  /\ UNCHANGED <<live_tasks, restarts, cmds_at_restart, subscribed>>
  /\ UNCHANGED <<schVars, hVars, xVars>>

\* movement task, close_door returned: back to the loop head
MoveNext ==
  /\ mpc = "close_sleep"
  /\ MovementLoop
  /\ UNCHANGED <<current_floor, door_status, running, cpc, store_state,
                 cmd_log>>
  /\ UNCHANGED <<restarts, cmds_at_restart, subscribed>>
  /\ UNCHANGED <<schVars, hVars, xVars>>

CtlNext ==
  \/ HandleCommand
  \/ AddDestinationFinish
  \/ CmdOpenPersist
  \/ CmdCloseDoor
  \/ CmdClosePersist
  \/ CmdCloseDone
  \/ StopCancel
  \/ MoveStart
  \/ MoveDepartPersist
  \/ MoveArrive
  \/ MoveArrivePersist
  \/ MoveOpenDoor
  \/ MoveOpenPersist
  \/ MoveCloseDoor
  \/ MoveClosePersist
  \/ MoveNext


\* ---------------------------------------- publish and persist failures
\* pubsub.publish raises PubSubPublishError in the movement task: no handler
\* in _process_movement catches it, the finally clause resets _movement_task
\* and the task ends.  (status_pubs keeps the message handed to publish: a
\* publish that raised may or may not have reached the subscribers.)
MovePublishFail ==
  /\ mpc \in {"depart_pub", "arrive_pub", "open_pub", "close_pub"}
  /\ movement_task' = "none"
  /\ mpc' = "none"
  /\ live_tasks' = live_tasks - 1
  /\ UNCHANGED <<current_floor, status, door_status, destinations, running,
                 cpc, next_floor, status_pubs, store_state, cmd_log,
                 restarts, cmds_at_restart, subscribed>>
  /\ UNCHANGED <<schVars, hVars, xVars>>

\* pubsub.publish raises PubSubPublishError in the command loop: neither the
\* handler nor _handle_command catches it, start() leaves its loop and its
\* finally clause runs stop()
CmdPublishFail ==
  /\ cpc \in {"add_pub", "open_pub", "close_pub"}
  /\ running' = FALSE
  /\ cpc' = "stopping"
  /\ UNCHANGED <<current_floor, status, door_status, destinations,
                 movement_task, mpc, next_floor, status_pubs, store_state,
                 cmd_log, live_tasks, restarts, cmds_at_restart, subscribed>>
  /\ UNCHANGED <<schVars, hVars, xVars>>

\* cache.set fails in the movement task: the backend logs the error and
\* returns False, the snapshot is not written and the task goes on
MovePersistFail ==
  /\ mpc \in {"depart_pub", "arrive_pub", "open_pub", "close_pub"}
  /\ mpc' = CASE mpc = "depart_pub" -> "travel"
             [] mpc = "arrive_pub" -> "arrive_persist"
             [] mpc = "open_pub" -> "dwell"
             [] mpc = "close_pub" -> "close_sleep"
  /\ UNCHANGED <<current_floor, status, door_status, destinations, running,
                 movement_task, cpc, next_floor, status_pubs, store_state,
                 cmd_log, live_tasks, restarts, cmds_at_restart, subscribed>>
  /\ UNCHANGED <<schVars, hVars, xVars>>

\* cache.set fails in the command loop: the snapshot is not written and the
\* handler goes on
CmdPersistFail ==
  /\ cpc \in {"open_pub", "close_pub"}
  /\ cpc' = IF cpc = "open_pub" THEN "dwell" ELSE "close_sleep"
  /\ UNCHANGED <<current_floor, status, door_status, destinations, running,
                 movement_task, mpc, next_floor, status_pubs, store_state,
                 cmd_log, live_tasks, restarts, cmds_at_restart, subscribed>>
  /\ UNCHANGED <<schVars, hVars, xVars>>

\* the controller with failing publishes and snapshot writes
FaultNext ==
  \/ CtlNext
  \/ MovePublishFail
  \/ CmdPublishFail
  \/ MovePersistFail
  \/ CmdPersistFail

\* ------------------------------------------------------ kill and restart
\* Elevator.from_dict on the object cache.get parsed from the stored JSON
ElevatorFromDict(data) ==
  [current_floor |-> data.current_floor, status |-> data.status,
   door_status |-> data.door_status, destinations |-> data.destinations]

\* the controller process is killed at any point and started again:
\* __init__, then start() up to its loop.  _load_elevator_state replaces the
\* elevator by the stored snapshot; no movement task is created.
CtlRestart ==
  /\ restarts < MaxRestarts
  /\ restarts' = restarts + 1
  /\ cmds_at_restart' = Len(cmd_log)
  /\ LET elevator == ElevatorFromDict(store_state)
     IN /\ current_floor' = elevator.current_floor
        /\ status' = elevator.status
        /\ door_status' = elevator.door_status
        /\ destinations' = elevator.destinations
  /\ running' = TRUE
  /\ movement_task' = "none"
  /\ mpc' = "none"
  /\ live_tasks' = 0
  /\ cpc' = "get_message"
  /\ subscribed' = TRUE
  /\ UNCHANGED <<next_floor, status_pubs, store_state, cmd_log>>
  /\ UNCHANGED <<schVars, hVars, xVars>>

\* the controller with kills and restarts
RestartNext ==
  \/ CtlNext
  \/ CtlRestart

\* ------------------------------------------------- requests on the wire
\* a Python value that is an int, or the str of that int
PyInt(n) == [t |-> "int", v |-> n]
PyStr(n) == [t |-> "str", v |-> n]

UP == "up"
DOWN == "down"
Direction == {UP, DOWN}

\* bodies accepted by POST /api/requests/external and /internal
ExternalBodies == [floor : 1..NUM_FLOORS, direction : Direction]
InternalBodies ==
  [elevator_id : 1..NUM_ELEVATORS, destination_floor : 1..NUM_FLOORS]

\* create_external_request + RedisStreamClient.publish: every field value
\* is written as str(v); the id is a fresh uuid (here the stream position)
ExternalEntry(id, body) ==
  [id |-> id, request_type |-> "external", status |-> "pending",
   floor |-> PyStr(body.floor), direction |-> body.direction]

\* create_internal_request + RedisStreamClient.publish
InternalEntry(id, body) ==
  [id |-> id, request_type |-> "internal", status |-> "pending",
   elevator_id |-> PyStr(body.elevator_id),
   destination_floor |-> PyStr(body.destination_floor)]

\* ExternalRequest.from_dict: the fields are taken as they are
ExternalFromDict(data) ==
  [id |-> data.id, floor |-> data.floor, direction |-> data.direction]

\* InternalRequest.from_dict: the fields are taken as they are
InternalFromDict(data) ==
  [id |-> data.id, elevator_id |-> data.elevator_id,
   destination_floor |-> data.destination_floor]

\* ---------------------------------------------------------------- scoring
Abs(x) == IF x < 0 THEN -x ELSE x

\* Scheduler._calculate_score, in tenths (distance - 1, distance * 0.8,
\* distance * 5.0 are compared exactly; the float products of the distances
\* of a building compare the same way).  request_floor is an int here.
CalculateScore(state, request_floor, request_direction) ==
  LET distance == Abs(state.current_floor - request_floor)
      is_on_way ==
        \/ /\ state.status = MOVING_UP
           /\ request_direction = UP
           /\ request_floor >= state.current_floor
        \/ /\ state.status = MOVING_DOWN
           /\ request_direction = DOWN
           /\ request_floor <= state.current_floor
  IN IF state.status = IDLE THEN 10 * distance - 10
     ELSE IF is_on_way THEN 8 * distance
     ELSE 50 * distance

\* mutant: a later elevator of equal score replaces the best one
Better_OrEqual(score, best_score) == score <= best_score

\* the comparison that replaces the best elevator in the selection loop
Better(score, best_score) == score < best_score

\* the loop of _select_best_elevator_for_external over elevator ids 1..n in
\* insertion order; best_score = "inf" before the first elevator
RECURSIVE SelectLoop(_, _, _, _)
SelectLoop(states, floor, direction, n) ==
  IF n = 0 THEN [id |-> 0, score |-> 0]
  ELSE LET prev == SelectLoop(states, floor, direction, n - 1)
           score == CalculateScore(states[n], floor, direction)
       IN IF prev.id = 0 \/ Better(score, prev.score)
          THEN [id |-> n, score |-> score]
          ELSE prev

\* Scheduler._select_best_elevator_for_external: the id selected (0 for
\* None); subtracting a str floor from an int raises TypeError
SelectBestElevatorForExternal(states, request) ==
  IF request.floor.t # "int"
  THEN [raised |-> TRUE, id |-> 0]
  ELSE [raised |-> FALSE,
        id |-> SelectLoop(states, request.floor.v, request.direction,
                          NUM_ELEVATORS).id]

\* Scheduler._handle_external_request: the commands it publishes
HandleExternalRequest(states, request) ==
  LET sel == SelectBestElevatorForExternal(states, request)
  IN [raised |-> sel.raised,
      pubs |-> IF sel.raised \/ sel.id = 0 THEN <<>>
               ELSE << [channel |-> sel.id, command |-> "go_to_floor",
                        floor |-> request.floor, request_id |-> request.id,
                        correlation_id |-> request.id] >>]

\* mutant: the command is published twice
HandleInternalRequest_Twice(request) ==
  LET c == [channel |-> request.elevator_id.v, command |-> "add_destination",
            floor |-> request.destination_floor, request_id |-> request.id,
            correlation_id |-> request.id]
  IN [raised |-> FALSE, pubs |-> <<c, c>>]

\* mutant: the command of an external request is published
HandleInternalRequest_GoToFloor(request) ==
  [raised |-> FALSE,
   pubs |-> << [channel |-> request.elevator_id.v,
                command |-> "go_to_floor",
                floor |-> request.destination_floor,
                request_id |-> request.id,
                correlation_id |-> request.id] >>]

\* Scheduler._handle_internal_request: the commands it publishes;
\* ELEVATOR_COMMANDS.format gives the same topic for 2 and "2"
HandleInternalRequest(request) ==
  [raised |-> FALSE,
   pubs |-> << [channel |-> request.elevator_id.v,
                command |-> "add_destination",
                floor |-> request.destination_floor,
                request_id |-> request.id,
                correlation_id |-> request.id] >>]

\* a key that the entry does not have: data[key] raises KeyError
Missing == [t |-> "missing", v |-> 0]

RequestStatus == {"pending", "completed"}

\* from_dict raises: KeyError for a missing key, ValueError when Direction()
\* or RequestStatus() is given a value that is not a member
FromDictRaises(data) ==
  \/ data.status \notin RequestStatus
  \/ /\ data.request_type = "external"
     /\ (data.floor = Missing \/ data.direction \notin Direction)
  \/ /\ data.request_type = "internal"
     /\ (data.elevator_id = Missing \/ data.destination_floor = Missing)

\* mutant: an entry whose request_type is not known is dispatched as an
\* external request
HandleMessage_Lenient(states, data) ==
  IF data.request_type = "internal"
  THEN IF FromDictRaises(data)
       THEN [raised |-> TRUE, pubs |-> <<>>]
       ELSE HandleInternalRequest(InternalFromDict(data))
  ELSE [raised |-> FALSE,
        pubs |-> << [channel |-> 1, command |-> "go_to_floor",
                     floor |-> data.floor, request_id |-> data.id,
                     correlation_id |-> data.id] >>]

\* Scheduler._handle_message up to the publish: dispatch on request_type;
\* an exception of from_dict or of the handler is logged and swallowed
HandleMessage(states, data) ==
  IF data.request_type = "external"
  THEN IF FromDictRaises(data)
       THEN [raised |-> TRUE, pubs |-> <<>>]
       ELSE HandleExternalRequest(states, ExternalFromDict(data))
  ELSE IF data.request_type = "internal"
  THEN IF FromDictRaises(data)
       THEN [raised |-> TRUE, pubs |-> <<>>]
       ELSE HandleInternalRequest(InternalFromDict(data))
  ELSE [raised |-> FALSE, pubs |-> <<>>]

\* ----------------------------------------------------------------- broker
\* the ids of a set of entries in stream order
RECURSIVE SortedSeq(_)
SortedSeq(S) ==
  IF S = {} THEN <<>>
  ELSE LET m == CHOOSE x \in S : \A y \in S : x <= y
       IN <<m>> \o SortedSeq(S \ {m})

SeqToSet(q) == {q[i] : i \in 1..Len(q)}

\* XREADGROUP for last_id ">": the entries never delivered to the group
NewEntries == (last_delivered + 1)..Len(stream)

\* XREADGROUP for last_id "0": the pending entries of this consumer
ReadGroupResult(last_id) ==
  IF last_id = ">" THEN SortedSeq(NewEntries) ELSE SortedSeq(pel)

\* mutant: the read does not record the entries as pending (NOACK)
PelAfterRead_NoAck(last_id) == pel

\* the pel after XREADGROUP: entries read with ">" become pending
PelAfterRead(last_id) == IF last_id = ">" THEN pel \cup NewEntries ELSE pel

\* the last-delivered id of a group created with XGROUP CREATE ... id
GroupStart(id) == IF id = "$" THEN Len(stream) ELSE 0

\* mutant: the pass before the main loop also reads with ">"
LastId_NewOnly == ">"

\* last_id of the read: "0" in the pending pass, ">" in the main loop
LastId == IF phase = "pending" THEN "0" ELSE ">"

\* what cache.get returns for a key that is not in the store
None == [none |-> TRUE]

\* default snapshot written by the ingress application at startup
DefaultSnapshot == [current_floor |-> 1, status |-> IDLE]

Snapshots == [current_floor : 1..NUM_FLOORS, status : ElevatorStatus]

\* ingress: POST /api/requests/* appends one entry to the stream
AppendRequest ==
  /\ Len(stream) < MaxRequests
  /\ \/ \E b \in ExternalBodies :
          stream' = Append(stream, ExternalEntry(Len(stream) + 1, b))
     \/ \E b \in InternalBodies :
          stream' = Append(stream, InternalEntry(Len(stream) + 1, b))
  /\ UNCHANGED <<group_exists, last_delivered, pel, acked, cache_store,
                 elevator_states, spc, phase, attempt, entries_to_ack,
                 yielded, batch, bpos, cmd_pubs, starts, handled, failed,
                 handled_now, pel_at_start, group_created_at>>
  /\ UNCHANGED <<ctlVars, hVars, xVars>>

\* -------------------------------------------------------------- scheduler
\* the locals of a fresh readgroup_with_ack context
NewContext ==
  /\ attempt' = 0
  /\ entries_to_ack' = <<>>
  /\ yielded' = FALSE
  /\ batch' = <<>>
  /\ bpos' = 1
  /\ handled_now' = {}

\* the with block is left: normally (done), or by an exception.  After the
\* pending pass the main loop starts; an exception in the pending pass ends
\* start(); in the main loop it is logged and the loop goes on.
LeaveContext(raised) ==
  /\ NewContext
  /\ IF phase = "pending" /\ raised
     THEN spc' = "dead" /\ UNCHANGED phase
     ELSE spc' = "read" /\ phase' = "main"

\* Scheduler.start up to create_consumer_group: XGROUP CREATE with the
\* default id "$" and mkstream; BUSYGROUP when the group exists
SchedStart ==
  /\ spc = "stopped"
  /\ starts < MaxStarts
  /\ starts' = starts + 1
  /\ IF group_exists
     THEN UNCHANGED <<group_exists, last_delivered, group_created_at>>
     ELSE /\ group_exists' = TRUE
          /\ last_delivered' = GroupStart("$")
          /\ group_created_at' = Len(stream)
  /\ pel_at_start' = pel
  /\ spc' = "load"
  /\ UNCHANGED <<stream, pel, acked, cache_store, elevator_states, phase,
                 attempt, entries_to_ack, yielded, batch, bpos, cmd_pubs,
                 handled, failed, handled_now>>
  /\ UNCHANGED <<ctlVars, hVars, xVars>>

\* mutant: a missing snapshot is replaced by the default one, which is
\* written to the store
SchedLoad_Persist ==
  /\ spc = "load"
  /\ cache_store' = [e \in 1..NUM_ELEVATORS |->
                       IF cache_store[e] = None THEN DefaultSnapshot
                       ELSE cache_store[e]]
  /\ elevator_states' = cache_store'
  /\ spc' = "read"
  /\ phase' = "pending"
  /\ NewContext
  /\ UNCHANGED <<stream, group_exists, last_delivered, pel, acked, cmd_pubs,
                 starts, handled, failed, pel_at_start, group_created_at>>
  /\ UNCHANGED <<ctlVars, hVars, xVars>>

\* Scheduler._load_elevator_states, then the pending pass begins
SchedLoad ==
  /\ spc = "load"
  /\ IF \E e \in 1..NUM_ELEVATORS : cache_store[e] = None
     THEN /\ spc' = "dead"
          /\ UNCHANGED <<elevator_states, phase, attempt, entries_to_ack,
                         yielded, batch, bpos, handled_now>>
     ELSE /\ elevator_states' = cache_store
          /\ spc' = "read"
          /\ phase' = "pending"
          /\ NewContext
  /\ UNCHANGED <<stream, group_exists, last_delivered, pel, acked,
                 cache_store, cmd_pubs, starts, handled, failed,
                 pel_at_start, group_created_at>>
  /\ UNCHANGED <<ctlVars, hVars, xVars>>

\* readgroup_with_ack: read_group succeeds.  The entries are collected for
\* acknowledgement and yielded; an empty first result leaves the block at
\* once; a second yield makes the context manager raise RuntimeError.
SchedRead ==
  /\ spc = "read"
  /\ LET result == ReadGroupResult(LastId)
     IN /\ IF LastId = ">"
           THEN /\ pel' = PelAfterRead(LastId)
                /\ last_delivered' = Len(stream)
           ELSE UNCHANGED <<pel, last_delivered>>
        /\ IF yielded
           THEN LeaveContext(TRUE)
           ELSE IF result = <<>>
           THEN LeaveContext(FALSE)
           ELSE /\ entries_to_ack' = entries_to_ack \o result
                /\ yielded' = TRUE
                /\ batch' = result
                /\ bpos' = 1
                /\ spc' = "handle"
                /\ UNCHANGED <<phase, attempt, handled_now>>
  /\ UNCHANGED <<stream, group_exists, acked, cache_store, elevator_states,
                 cmd_pubs, starts, handled, failed, pel_at_start,
                 group_created_at>>
  /\ UNCHANGED <<ctlVars, hVars, xVars>>

\* mutant: the error is re-raised one attempt earlier
RetryOrRaise_Early ==
  IF attempt + 1 >= MAX_RETRIES - 1
  THEN LeaveContext(TRUE)
  ELSE /\ attempt' = attempt + 1
       /\ spc' = "read"
       /\ UNCHANGED <<phase, entries_to_ack, yielded, batch, bpos,
                      handled_now>>

\* the retry logic of readgroup_with_ack after a ConnectionError
RetryOrRaise ==
  IF attempt + 1 >= MAX_RETRIES
  THEN LeaveContext(TRUE)
  ELSE /\ attempt' = attempt + 1
       /\ spc' = "read"
       /\ UNCHANGED <<phase, entries_to_ack, yielded, batch, bpos,
                      handled_now>>

\* readgroup_with_ack: read_group raises ConnectionError
SchedReadFail ==
  /\ spc = "read"
  /\ RetryOrRaise
  /\ UNCHANGED <<stream, group_exists, last_delivered, pel, acked,
                 cache_store, elevator_states, cmd_pubs, starts, handled,
                 failed, pel_at_start, group_created_at>>
  /\ UNCHANGED <<ctlVars, hVars, xVars>>

\* mutant: the with block is left after the first message of the batch
SchedHandle_LeaveEarly ==
  /\ spc = "handle"
  /\ bpos <= Len(batch)
  /\ \E publish_ok \in BOOLEAN :
       LET e == batch[bpos]
           r == HandleMessage(elevator_states, stream[e])
           raised == r.raised \/ (r.pubs # <<>> /\ ~publish_ok)
       IN /\ cmd_pubs' = IF raised THEN cmd_pubs ELSE cmd_pubs \o r.pubs
          /\ handled' = [handled EXCEPT ![e] = @ + 1]
          /\ failed' = IF raised THEN failed \cup {e} ELSE failed \ {e}
          /\ handled_now' = handled_now \cup {e}
  /\ bpos' = bpos + 1
  /\ spc' = "ack"
  /\ UNCHANGED <<stream, group_exists, last_delivered, pel, acked,
                 cache_store, elevator_states, phase, attempt,
                 entries_to_ack, yielded, batch, starts, pel_at_start,
                 group_created_at>>
  /\ UNCHANGED <<ctlVars, hVars, xVars>>

\* body of the with block: _handle_message for the next message of the
\* batch; pubsub.publish may raise, any exception is logged and swallowed.
\* After the last message the block is left and acknowledge is called.
SchedHandle ==
  /\ spc = "handle"
  /\ bpos <= Len(batch)
  /\ \E publish_ok \in BOOLEAN :
       LET e == batch[bpos]
           r == HandleMessage(elevator_states, stream[e])
           raised == r.raised \/ (r.pubs # <<>> /\ ~publish_ok)
       IN /\ cmd_pubs' = IF raised THEN cmd_pubs ELSE cmd_pubs \o r.pubs
          /\ handled' = [handled EXCEPT ![e] = @ + 1]
          /\ failed' = IF raised THEN failed \cup {e} ELSE failed \ {e}
          /\ handled_now' = handled_now \cup {e}
  /\ bpos' = bpos + 1
  /\ spc' = IF bpos = Len(batch) THEN "ack" ELSE "handle"
  /\ UNCHANGED <<stream, group_exists, last_delivered, pel, acked,
                 cache_store, elevator_states, phase, attempt,
                 entries_to_ack, yielded, batch, starts, pel_at_start,
                 group_created_at>>
  /\ UNCHANGED <<ctlVars, hVars, xVars>>

\* readgroup_with_ack after the yield: acknowledge(*entry_ids) succeeds
SchedAck ==
  /\ spc = "ack"
  /\ acked' = acked \cup (SeqToSet(entries_to_ack) \cap pel)
  /\ pel' = pel \ SeqToSet(entries_to_ack)
  /\ LeaveContext(FALSE)
  /\ UNCHANGED <<stream, group_exists, last_delivered, cache_store,
                 elevator_states, cmd_pubs, starts, handled, failed,
                 pel_at_start, group_created_at>>
  /\ UNCHANGED <<ctlVars, hVars, xVars>>

\* readgroup_with_ack after the yield: acknowledge raises ConnectionError,
\* which the retry handler of the read catches
SchedAckFail ==
  /\ spc = "ack"
  /\ RetryOrRaise
  /\ UNCHANGED <<stream, group_exists, last_delivered, pel, acked,
                 cache_store, elevator_states, cmd_pubs, starts, handled,
                 failed, pel_at_start, group_created_at>>
  /\ UNCHANGED <<ctlVars, hVars, xVars>>

\* the scheduler process is killed (or has ended) and can be started again
SchedKill ==
  /\ spc # "stopped"
  /\ starts < MaxStarts
  /\ spc' = "stopped"
  /\ phase' = "pending"
  /\ NewContext
  /\ UNCHANGED <<stream, group_exists, last_delivered, pel, acked,
                 cache_store, elevator_states, cmd_pubs, starts, handled,
                 failed, pel_at_start, group_created_at>>
  /\ UNCHANGED <<ctlVars, hVars, xVars>>

\* no consumer group, and a scheduler not yet started
NoGroup ==
  /\ group_exists = FALSE
  /\ last_delivered = 0
  /\ pel = {}
  /\ acked = {}
  /\ spc = "stopped"
  /\ phase = "pending"
  /\ attempt = 0
  /\ entries_to_ack = <<>>
  /\ yielded = FALSE
  /\ batch = <<>>
  /\ bpos = 1
  /\ cmd_pubs = <<>>
  /\ starts = 0
  /\ handled = [e \in 1..MaxRequests |-> 0]
  /\ failed = {}
  /\ handled_now = {}
  /\ pel_at_start = {}
  /\ group_created_at = 0

\* an empty stream without consumer group, and a scheduler not yet started
BrokerInit ==
  /\ stream = <<>>
  /\ NoGroup

\* the store holds the default snapshots the ingress application wrote
SchedInit ==
  /\ BrokerInit
  /\ cache_store = [e \in 1..NUM_ELEVATORS |-> DefaultSnapshot]
  /\ elevator_states = [e \in 1..NUM_ELEVATORS |-> DefaultSnapshot]

SchedNext ==
  \/ AppendRequest
  \/ SchedStart
  \/ SchedLoad
  \/ SchedRead
  \/ SchedReadFail
  \/ SchedHandle
  \/ SchedAck
  \/ SchedAckFail
  \/ SchedKill

\* ------------------------------------------- handlers called directly
\* request objects as the constructors build them (int fields), and
\* internal requests as from_dict builds them from a stream entry
ExternalRequests ==
  {[id |-> 1, request_type |-> "external", floor |-> PyInt(f),
    direction |-> d] : f \in 1..MaxScoreFloor, d \in Direction}

InternalRequests ==
  {[id |-> 1, request_type |-> "internal", elevator_id |-> e,
    destination_floor |-> f] :
     e \in {PyInt(n) : n \in 1..NUM_ELEVATORS}
            \cup {PyStr(n) : n \in 1..NUM_ELEVATORS},
     f \in {PyInt(n) : n \in 1..NUM_FLOORS}
            \cup {PyStr(n) : n \in 1..NUM_FLOORS}}

ScoreSnapshots == [current_floor : 1..MaxScoreFloor, status : ElevatorStatus]

NoRequest == [id |-> 0, request_type |-> "none"]

NoCall == [op |-> "none"]

\* no constructor or trim call made, no command handed to the broker, no
\* stop() from outside, and no supervisor
XIdle ==
  /\ objects = <<>>
  /\ trim_call = NoCall
  /\ routed = <<>>
  /\ received = 0
  /\ stop_pc = "none"
  /\ shutdown_event = FALSE
  /\ sup_pc = "none"
  /\ adapters_closed = FALSE
  /\ peer_alive = FALSE
  /\ peer_pel = {}

HandlerIdle ==
  /\ h_request = NoRequest
  /\ h_pc = "idle"
  /\ selected = 0
  /\ XIdle

\* a scheduler whose cache holds any snapshots, and any request object
HandlerInit ==
  /\ BrokerInit
  /\ CtlInit
  /\ current_floor = 1
  /\ elevator_states \in [1..NUM_ELEVATORS -> ScoreSnapshots]
  /\ cache_store = elevator_states
  /\ h_request \in ExternalRequests \cup InternalRequests
  /\ h_pc = "call"
  /\ selected = 0
  /\ XIdle

\* what a direct call of a handler leaves alone
HandlerFrame ==
  <<ctlVars, stream, group_exists, last_delivered, pel, acked, cache_store,
    elevator_states, spc, phase, attempt, entries_to_ack, yielded, batch,
    bpos, starts, handled, failed, handled_now, pel_at_start,
    group_created_at, xVars>>

\* await scheduler._select_best_elevator_for_external(request)
CallSelect ==
  /\ h_pc = "call"
  /\ h_request.request_type = "external"
  /\ selected' =
       SelectBestElevatorForExternal(elevator_states, h_request).id
  /\ h_pc' = "selected"
  /\ UNCHANGED <<h_request, cmd_pubs>>
  /\ UNCHANGED HandlerFrame

\* await scheduler._handle_external_request(request) /
\* _handle_internal_request(request), the publish succeeding
CallHandle ==
  /\ h_pc = "call"
  /\ LET r == IF h_request.request_type = "external"
              THEN HandleExternalRequest(elevator_states, h_request)
              ELSE HandleInternalRequest(h_request)
     IN cmd_pubs' = cmd_pubs \o r.pubs
  /\ h_pc' = "handled"
  /\ UNCHANGED <<h_request, selected>>
  /\ UNCHANGED HandlerFrame

HandlerNext ==
  \/ CallSelect
  \/ CallHandle

HandlerSpec == HandlerInit /\ [][HandlerNext]_vars

\* ------------------------------------------------------ elevator entity
\* the id of the elevator this controller drives
ELEVATOR_ID == 1

\* Elevator.__init__: all seven attributes, the times (in tenths of a
\* second) at the defaults of the parameters
ElevatorNew(elevator_id, initial_floor) ==
  [id |-> elevator_id, current_floor |-> initial_floor, status |-> IDLE,
   door_status |-> CLOSED, destinations |-> <<>>,
   floor_travel_time |-> 10, door_operation_time |-> 15]

\* ElevatorStatus(value) / DoorStatus(value): the member with that value,
\* ValueError when there is none
EnumOf(members, value) == IF value \in members THEN value ELSE "ValueError"

\* Elevator.to_dict with the id: five of the seven attributes
ElevatorToDict(e) ==
  [id |-> e.id] @@ to_dict(e.current_floor, e.status, e.door_status,
                           e.destinations)

\* mutant: the destinations of the dictionary are not taken
from_dict_NoDestinations(data) ==
  LET elevator == ElevatorNew(data.id, data.current_floor)
  IN [elevator EXCEPT !.status = EnumOf(ElevatorStatus, data.status),
                      !.door_status = EnumOf(DoorStatus, data.door_status)]

\* Elevator.from_dict: a new Elevator from id and current_floor, then
\* status, door_status and destinations (default []) from the dictionary
from_dict(data) ==
  LET elevator == ElevatorNew(data.id, data.current_floor)
  IN [elevator EXCEPT !.status = EnumOf(ElevatorStatus, data.status),
                      !.door_status = EnumOf(DoorStatus, data.door_status),
                      !.destinations = DictGet(data, "destinations", <<>>)]

\* ElevatorController.elevator: built by __init__ or by from_dict at start,
\* then driven by the command loop and the movement task
TheElevator ==
  [ElevatorNew(ELEVATOR_ID, current_floor) EXCEPT
     !.status = status, !.door_status = door_status,
     !.destinations = destinations]

\* ------------------------------------------------- request constructors
\* BaseRequest.__init__ + ExternalRequest.__init__: the outcome of the call.
\* The arguments are stored as they are given; nothing is raised.
ExternalRequestInit(floor, direction) ==
  [raised |-> FALSE, request_type |-> "external", status |-> "pending",
   floor |-> floor, direction |-> direction]

\* BaseRequest.__init__ + InternalRequest.__init__: the outcome of the call
InternalRequestInit(elevator_id, destination_floor) ==
  [raised |-> FALSE, request_type |-> "internal", status |-> "pending",
   elevator_id |-> elevator_id, destination_floor |-> destination_floor]

\* integer arguments given to the constructors, in and out of range
CtorFloors == 0..(NUM_FLOORS + 1)
CtorElevatorIds == 0..(NUM_ELEVATORS + 1)

\* what a constructor call leaves alone
CtorFrame ==
  <<ctlVars, schVars, hVars, trim_call, routed, received, stop_pc,
    shutdown_event, sup_pc, adapters_closed,
                 peer_alive, peer_pel>>

\* a caller evaluates ExternalRequest(floor, direction)
ConstructExternal ==
  /\ Len(objects) < MaxObjects
  /\ \E floor \in CtorFloors, direction \in Direction :
       objects' = Append(objects, ExternalRequestInit(floor, direction))
  /\ UNCHANGED CtorFrame

\* a caller evaluates InternalRequest(elevator_id, destination_floor)
ConstructInternal ==
  /\ Len(objects) < MaxObjects
  /\ \E elevator_id \in CtorElevatorIds, destination_floor \in CtorFloors :
       objects' = Append(objects,
                         InternalRequestInit(elevator_id, destination_floor))
  /\ UNCHANGED CtorFrame

CtorNext ==
  \/ ConstructExternal
  \/ ConstructInternal

\* -------------------------------------------------------------- trim
\* optional arguments of trim: None, a stream id, a length
OptIds == {None} \cup {PyInt(i) : i \in 1..(MaxTrimLen + 1)}
OptLens == {None} \cup {PyInt(k) : k \in 0..MaxTrimLen}

\* the last n entries of s
LastEntries(s, n) ==
  IF n >= Len(s) THEN s ELSE SubSeq(s, Len(s) - n + 1, Len(s))

\* XTRIM MAXLEN maxlen / XTRIM MINID minid without "~": what is kept
XTrimExact(s, maxlen, minid) ==
  IF maxlen # None THEN LastEntries(s, maxlen.v)
  ELSE SelectSeq(s, LAMBDA e : e.id >= minid.v)

\* redis xtrim(name, maxlen, approximate, minid): DataError unless exactly
\* one of maxlen and minid is given; with approximate ("~") the server
\* evicts whole nodes only, so it may keep more than the exact result
XTrim(s, maxlen, minid, approximate) ==
  IF (maxlen = None) = (minid = None)
  THEN {[outcome |-> "DataError", kept |-> s]}
  ELSE LET exact == XTrimExact(s, maxlen, minid)
       IN {[outcome |-> "ok", kept |-> LastEntries(s, n)] :
             n \in IF approximate THEN Len(exact)..Len(s) ELSE {Len(exact)}}

\* RedisStreamClient.trim: trims by maxlen whenever maxlen is given,
\* whatever min_id is; else by min_id
Trim(s, min_id, maxlen, approximate) ==
  IF maxlen # None THEN XTrim(s, maxlen, None, approximate)
  ELSE XTrim(s, None, min_id, approximate)

\* trim_stream (DELETE /api/requests): 400 unless exactly one of min_id and
\* maxlen is given; by count it calls trim(maxlen=...); by id it calls
\* trim(minid=...), a keyword trim does not have (TypeError)
TrimStream(s, min_id, maxlen, approximate) ==
  IF (min_id = None) = (maxlen = None)
  THEN {[outcome |-> "HTTP400", kept |-> s]}
  ELSE IF maxlen # None THEN Trim(s, None, maxlen, approximate)
  ELSE {[outcome |-> "TypeError", kept |-> s]}

\* the record of a call and its outcome
TrimCall(via, min_id, maxlen, approximate, r, s) ==
  [op |-> "trim", via |-> via, min_id |-> min_id, maxlen |-> maxlen,
   approximate |-> approximate, outcome |-> r.outcome,
   trimmed_count |-> Len(s) - Len(r.kept)]

\* what a call of trim leaves alone
TrimFrame ==
  <<ctlVars, group_exists, last_delivered, pel, acked, cache_store,
    elevator_states, spc, phase, attempt, entries_to_ack, yielded, batch,
    bpos, cmd_pubs, starts, handled, failed, handled_now, pel_at_start,
    group_created_at, hVars, objects, routed, received, stop_pc,
    shutdown_event, sup_pc, adapters_closed,
                 peer_alive, peer_pel>>

\* a caller awaits event_stream.trim(stream, min_id, maxlen, approximate)
ClientTrim ==
  /\ \E min_id \in OptIds, maxlen \in OptLens, approximate \in BOOLEAN :
       \E r \in Trim(stream, min_id, maxlen, approximate) :
         /\ stream' = r.kept
         /\ trim_call' =
              TrimCall("client", min_id, maxlen, approximate, r, stream)
  /\ UNCHANGED TrimFrame

\* a client sends DELETE /api/requests?min_id=..&maxlen=..&approximate=..
EndpointTrim ==
  /\ \E min_id \in OptIds, maxlen \in OptLens, approximate \in BOOLEAN :
       \E r \in TrimStream(stream, min_id, maxlen, approximate) :
         /\ stream' = r.kept
         /\ trim_call' =
              TrimCall("endpoint", min_id, maxlen, approximate, r, stream)
  /\ UNCHANGED TrimFrame

\* a stream of up to MaxTrimLen requests, no consumer group
TrimInit ==
  /\ CtlInit
  /\ current_floor = 1
  /\ NoGroup
  /\ cache_store = [e \in 1..NUM_ELEVATORS |-> DefaultSnapshot]
  /\ elevator_states = [e \in 1..NUM_ELEVATORS |-> DefaultSnapshot]
  /\ HandlerIdle
  /\ \E n \in 0..MaxTrimLen, b \in ExternalBodies :
       stream = [i \in 1..n |-> ExternalEntry(i, b)]

TrimNext ==
  \/ ClientTrim
  \/ EndpointTrim

\* ------------------------------------------- commands through pub/sub
\* Redis PUBLISH: the message goes to the connections subscribed at that
\* moment and to no one else; nothing is stored.  The controller's
\* connection is identified by the number of starts of the controller.
Route ==
  /\ Len(routed) < Len(cmd_pubs)
  /\ LET m == cmd_pubs[Len(routed) + 1]
     IN routed' = Append(routed,
                         IF m.channel = ELEVATOR_ID /\ subscribed
                         THEN restarts ELSE -1)
  /\ UNCHANGED <<ctlVars, schVars, hVars, objects, trim_call, received,
                 stop_pc, shutdown_event, sup_pc, adapters_closed,
                 peer_alive, peer_pel>>

\* every published command has been routed (PUBLISH is one server step)
AllRouted == Len(routed) = Len(cmd_pubs)

\* the messages waiting on the controller's present connection
Waiting ==
  {i \in (received + 1)..Len(routed) : routed[i] = restarts}

\* start() loop: get_message returns the next command the scheduler
\* published; _handle_command dispatches it.  The floor is the JSON value
\* the scheduler wrote: comparing a str floor with 1 raises TypeError, which
\* _handle_command does not catch, so start() ends through stop().
ReceiveCommand ==
  /\ cpc = "get_message"
  /\ subscribed
  /\ Waiting # {}
  /\ LET i == CHOOSE j \in Waiting : \A k \in Waiting : j <= k
         m == cmd_pubs[i]
     IN /\ received' = i
        /\ cmd_log' = Append(cmd_log,
                             [command |-> m.command, floor |-> m.floor.v])
        /\ IF m.floor.t # "int"
           THEN /\ running' = FALSE
                /\ cpc' = "stopping"
                /\ UNCHANGED <<current_floor, status, door_status,
                               destinations, movement_task, mpc, next_floor,
                               status_pubs, store_state>>
           ELSE IF m.command = "go_to_floor" THEN GoToFloorStart(m.floor.v)
           ELSE AddDestinationStart(m.floor.v)
  /\ UNCHANGED <<live_tasks, restarts, cmds_at_restart, subscribed>>
  /\ UNCHANGED <<schVars, hVars, objects, trim_call, routed, stop_pc,
                 shutdown_event, sup_pc, adapters_closed,
                 peer_alive, peer_pel>>

\* stop() and the restart of the controller, between two PUBLISH steps
SysStopCancel == AllRouted /\ StopCancel

SysRestart == AllRouted /\ cpc = "stopped" /\ CtlRestart

\* the scheduler's loop without broker failures
SchedProgress ==
  \/ SchedStart
  \/ SchedLoad
  \/ SchedRead
  \/ SchedHandle
  \/ SchedAck

\* ingress, scheduler, pub/sub broker and the controller of elevator 1
SystemNext ==
  \/ AppendRequest
  \/ SchedProgress
  \/ Route
  \/ ReceiveCommand
  \/ SysStopCancel
  \/ SysRestart

\* ------------------------------------- snapshots persisted by controllers
\* the (current_floor, status) of the snapshots a controller writes: an
\* elevator moving up is below the top floor, one moving down above floor 1
PersistableSnapshots ==
  {s \in Snapshots :
     /\ s.status = MOVING_UP => s.current_floor < NUM_FLOORS
     /\ s.status = MOVING_DOWN => s.current_floor > 1}

\* the controller of elevator e persists its state: cache.set on
\* elevator:status:{e}
StorePersist ==
  /\ \E e \in 1..NUM_ELEVATORS, s \in PersistableSnapshots :
       /\ cache_store[e] # s
       /\ cache_store' = [cache_store EXCEPT ![e] = s]
  /\ UNCHANGED <<stream, group_exists, last_delivered, pel, acked,
                 elevator_states, spc, phase, attempt, entries_to_ack,
                 yielded, batch, bpos, cmd_pubs, starts, handled, failed,
                 handled_now, pel_at_start, group_created_at>>
  /\ UNCHANGED <<ctlVars, hVars, xVars>>

\* the store as the ingress wrote it, a scheduler not yet started, and an
\* external request of the building waiting to be scored
SelectInit ==
  /\ CtlInit
  /\ current_floor = 1
  /\ SchedInit
  /\ h_request \in {r \in ExternalRequests : ValidFloor(r.floor.v)}
  /\ h_pc = "call"
  /\ selected = 0
  /\ XIdle

\* the scheduler starts and loads the snapshots, the controllers go on
\* persisting, and the request is scored
SelectNext ==
  \/ SchedStart
  \/ SchedLoad
  \/ StorePersist
  \/ CallSelect

\* ------------------------------------------- stop() called by the service
\* the parts of the state a stop() called from outside the command loop
\* leaves alone
StopFrame ==
  /\ UNCHANGED <<current_floor, status, door_status, destinations,
                 next_floor, status_pubs, store_state, cmd_log, restarts,
                 cmds_at_restart>>
  /\ UNCHANGED <<schVars, hVars>>
  /\ UNCHANGED <<objects, trim_call, routed, received, shutdown_event,
                 sup_pc, adapters_closed,
                 peer_alive, peer_pel>>

\* main()'s finally clause calls stop() of a controller whose start() is
\* still running (the start() of another controller raised and gather
\* re-raised it): stop() up to its first await clears the running flag
ServiceStopBegin ==
  /\ stop_pc = "none"
  /\ cpc \notin {"stopping", "stopped"}
  /\ running' = FALSE
  /\ stop_pc' = "unsubscribe"
  /\ UNCHANGED <<movement_task, cpc, mpc, live_tasks, subscribed>>
  /\ StopFrame

\* that stop(): pubsub.unsubscribe and pubsub.close are done
ServiceStopUnsubscribe ==
  /\ stop_pc = "unsubscribe"
  /\ subscribed' = FALSE
  /\ stop_pc' = "cancel"
  /\ UNCHANGED <<running, movement_task, cpc, mpc, live_tasks>>
  /\ StopFrame

\* that stop(): the movement task, if any, is cancelled and awaited, and
\* stop() returns
ServiceStopCancel ==
  /\ stop_pc = "cancel"
  /\ IF movement_task = "task" /\ mpc \notin {"none", "created"}
     THEN movement_task' = "none"
     ELSE UNCHANGED movement_task
  /\ mpc' = "none"
  /\ live_tasks' = IF mpc # "none" THEN live_tasks - 1 ELSE live_tasks
  /\ stop_pc' = "returned"
  /\ UNCHANGED <<running, cpc, subscribed>>
  /\ StopFrame

\* start(): the loop condition `while self._running` is read after
\* get_message returned nothing, the loop ends and the finally clause runs
LoopExit ==
  /\ cpc = "get_message"
  /\ ~running
  /\ cpc' = "stopping"
  /\ UNCHANGED <<running, movement_task, mpc, live_tasks, subscribed,
                 stop_pc>>
  /\ StopFrame

\* main() has left its finally clause and asyncio.run cancels the tasks that
\* are left: CancelledError is thrown into start() at its current await and
\* its finally clause runs
ServiceTeardown ==
  /\ stop_pc = "returned"
  /\ cpc \notin {"get_message", "stopping", "stopped"}
  /\ cpc' = "stopping"
  /\ UNCHANGED <<running, movement_task, mpc, live_tasks, subscribed,
                 stop_pc>>
  /\ StopFrame

\* a command is taken from the connection only by a running loop
RunningHandleCommand == running /\ HandleCommand

StopNext ==
  \/ RunningHandleCommand
  \/ AddDestinationFinish
  \/ CmdOpenPersist
  \/ CmdCloseDoor
  \/ CmdClosePersist
  \/ CmdCloseDone
  \/ StopCancel
  \/ MoveStart
  \/ MoveDepartPersist
  \/ MoveArrive
  \/ MoveArrivePersist
  \/ MoveOpenDoor
  \/ MoveOpenPersist
  \/ MoveCloseDoor
  \/ MoveClosePersist
  \/ MoveNext
  \/ ServiceStopBegin
  \/ ServiceStopUnsubscribe
  \/ ServiceStopCancel
  \/ LoopExit
  \/ ServiceTeardown

\* ------------------------------------------------ scheduler supervisor
\* the parts of the state main() of the scheduler service leaves alone
SupFrame ==
  /\ UNCHANGED <<stream, group_exists, last_delivered, pel, acked,
                 cache_store, elevator_states, phase, attempt,
                 entries_to_ack, yielded, batch, bpos, cmd_pubs, starts,
                 handled, failed, handled_now, pel_at_start,
                 group_created_at>>
  /\ UNCHANGED <<ctlVars, hVars>>
  /\ UNCHANGED <<objects, trim_call, routed, received, stop_pc, peer_alive,
                 peer_pel>>

\* main() at create_scheduler: the factory passes redis_client= to
\* Scheduler.__init__, which has no such parameter; the TypeError is caught
\* by `except Exception`, sys.exit(1) is called, and the finally clause,
\* with scheduler still None, closes the adapters
SupCreateScheduler ==
  /\ sup_pc = "create"
  /\ sup_pc' = "exited"
  /\ adapters_closed' = TRUE
  /\ UNCHANGED <<spc, shutdown_event>>
  /\ SupFrame

\* main(): scheduler_task = asyncio.create_task(scheduler.start()), then
\* await shutdown_event.wait()
SupStartTask ==
  /\ sup_pc = "created"
  /\ sup_pc' = "wait"
  /\ UNCHANGED <<spc, shutdown_event, adapters_closed>>
  /\ SupFrame

\* handle_exit: SIGINT or SIGTERM sets shutdown_event
Signal ==
  /\ sup_pc # "exited"
  /\ ~shutdown_event
  /\ shutdown_event' = TRUE
  /\ UNCHANGED <<spc, sup_pc, adapters_closed>>
  /\ SupFrame

\* main() wakes from shutdown_event.wait() and enters its finally clause:
\* Scheduler has no stop(), `await scheduler.stop()` raises AttributeError,
\* the three close calls after it are skipped and main() ends by raising
SupShutdown ==
  /\ sup_pc = "wait"
  /\ shutdown_event
  /\ sup_pc' = "raised"
  /\ UNCHANGED <<spc, shutdown_event, adapters_closed>>
  /\ SupFrame

\* asyncio.run, main() being over, cancels the task that is left:
\* CancelledError is thrown into start() at its current await (a task that
\* never ran is dropped), no handler of start() or readgroup_with_ack
\* catches it, and the process ends
SupCancelTask ==
  /\ sup_pc = "raised"
  /\ sup_pc' = "exited"
  /\ spc' = IF spc = "stopped" THEN spc ELSE "dead"
  /\ UNCHANGED <<shutdown_event, adapters_closed>>
  /\ SupFrame

\* the task created by main() runs start() for the first time
TaskStart ==
  /\ sup_pc \in {"wait", "raised"}
  /\ starts = 0
  /\ SchedStart

\* the steps of the scheduler task
TaskProgress ==
  \/ TaskStart
  \/ SchedLoad
  \/ SchedRead
  \/ SchedHandle
  \/ SchedAck

\* the steps of main() and of asyncio.run
SupProgress ==
  \/ SupCreateScheduler
  \/ SupStartTask
  \/ SupShutdown
  \/ SupCancelTask

\* main() about to call create_scheduler, or past it with a scheduler
\* built from the arguments Scheduler.__init__ takes
ShutdownInit ==
  /\ CtlInit
  /\ current_floor = 1
  /\ SchedInit
  /\ h_request = NoRequest
  /\ h_pc = "idle"
  /\ selected = 0
  /\ objects = <<>>
  /\ trim_call = NoCall
  /\ routed = <<>>
  /\ received = 0
  /\ stop_pc = "none"
  /\ shutdown_event = FALSE
  /\ sup_pc \in {"create", "created"}
  /\ adapters_closed = FALSE
  /\ peer_alive = FALSE
  /\ peer_pel = {}

ShutdownNext ==
  \/ AppendRequest
  \/ TaskProgress
  \/ SupProgress
  \/ Signal

\* ----------------------------------- commands of one elevator, in order
\* ingress: POST /api/requests/internal for elevator 1, floor 2
AppendInternalRequest ==
  /\ Len(stream) < MaxOrderRequests
  /\ stream' = Append(stream,
       InternalEntry(Len(stream) + 1,
                     [elevator_id |-> ELEVATOR_ID, destination_floor |-> 2]))
  /\ UNCHANGED <<group_exists, last_delivered, pel, acked, cache_store,
                 elevator_states, spc, phase, attempt, entries_to_ack,
                 yielded, batch, bpos, cmd_pubs, starts, handled, failed,
                 handled_now, pel_at_start, group_created_at>>
  /\ UNCHANGED <<ctlVars, hVars, xVars>>

\* an empty stream without consumer group, a scheduler not yet started and
\* the default snapshots in the store
OrderInit ==
  /\ CtlInit
  /\ current_floor = 1
  /\ HandlerIdle
  /\ stream = <<>>
  /\ group_exists = FALSE
  /\ last_delivered = 0
  /\ pel = {}
  /\ acked = {}
  /\ spc = "stopped"
  /\ phase = "pending"
  /\ attempt = 0
  /\ entries_to_ack = <<>>
  /\ yielded = FALSE
  /\ batch = <<>>
  /\ bpos = 1
  /\ cmd_pubs = <<>>
  /\ starts = 0
  /\ handled = [e \in 1..MaxOrderRequests |-> 0]
  /\ failed = {}
  /\ handled_now = {}
  /\ pel_at_start = {}
  /\ group_created_at = 0
  /\ cache_store = [e \in 1..NUM_ELEVATORS |-> DefaultSnapshot]
  /\ elevator_states = [e \in 1..NUM_ELEVATORS |-> DefaultSnapshot]

OrderNext ==
  \/ AppendInternalRequest
  \/ SchedStart
  \/ SchedLoad
  \/ SchedRead
  \/ SchedReadFail
  \/ SchedHandle
  \/ SchedAck
  \/ SchedAckFail
  \/ SchedKill

\* ------------------------------------ a second instance in the group
\* what the steps of the second instance leave alone
PeerFrame ==
  /\ UNCHANGED <<stream, group_exists, pel, cache_store, elevator_states,
                 spc, phase, attempt, entries_to_ack, yielded, batch, bpos,
                 starts, handled_now, pel_at_start, group_created_at>>
  /\ UNCHANGED <<ctlVars, hVars>>
  /\ UNCHANGED <<objects, trim_call, routed, received, stop_pc,
                 shutdown_event, sup_pc, adapters_closed>>

\* the commands _handle_message publishes for the entries of a batch
RECURSIVE BatchPubs(_)
BatchPubs(q) ==
  IF q = <<>> THEN <<>>
  ELSE LET r == HandleMessage(cache_store, stream[Head(q)])
       IN (IF r.raised THEN <<>> ELSE r.pubs) \o BatchPubs(Tail(q))

\* main loop of scheduler-2: read_group with ">" delivers the entries never
\* delivered to the group, which become pending for scheduler-2
PeerRead ==
  /\ peer_alive
  /\ group_exists
  /\ NewEntries # {}
  /\ peer_pel' = peer_pel \cup NewEntries
  /\ last_delivered' = Len(stream)
  /\ UNCHANGED <<acked, cmd_pubs, handled, failed, peer_alive>>
  /\ PeerFrame

\* scheduler-2 handles the batch it read and acknowledges it
PeerHandleAck ==
  /\ peer_alive
  /\ peer_pel # {}
  /\ cmd_pubs' = cmd_pubs \o BatchPubs(SortedSeq(peer_pel))
  /\ handled' = [e \in DOMAIN handled |->
                   IF e \in peer_pel THEN handled[e] + 1 ELSE handled[e]]
  /\ failed' = (failed \ peer_pel) \cup
                 {e \in peer_pel :
                    HandleMessage(cache_store, stream[e]).raised}
  /\ acked' = acked \cup peer_pel
  /\ peer_pel' = {}
  /\ UNCHANGED <<last_delivered, peer_alive>>
  /\ PeerFrame

\* scheduler-2 stops and is not started again
PeerStop ==
  /\ peer_alive
  /\ peer_alive' = FALSE
  /\ UNCHANGED <<last_delivered, acked, cmd_pubs, handled, failed, peer_pel>>
  /\ PeerFrame

\* scheduler-1 not yet started, scheduler-2 running in the same group
GroupInit ==
  /\ CtlInit
  /\ current_floor = 1
  /\ SchedInit
  /\ h_request = NoRequest
  /\ h_pc = "idle"
  /\ selected = 0
  /\ objects = <<>>
  /\ trim_call = NoCall
  /\ routed = <<>>
  /\ received = 0
  /\ stop_pc = "none"
  /\ shutdown_event = FALSE
  /\ sup_pc = "none"
  /\ adapters_closed = FALSE
  /\ peer_alive = TRUE
  /\ peer_pel = {}

GroupNext ==
  \/ AppendRequest
  \/ SchedProgress
  \/ PeerRead
  \/ PeerHandleAck
  \/ PeerStop

\* ------------------------------------------ entries of other producers
\* entries that from_dict cannot turn into a request, or whose request_type
\* is absent or unknown
MalformedEntries(id) ==
  { [id |-> id, request_type |-> "external", status |-> "pending",
     floor |-> Missing, direction |-> UP],
    [id |-> id, request_type |-> "external", status |-> "pending",
     floor |-> PyStr(1), direction |-> "sideways"],
    [id |-> id, request_type |-> "external", status |-> "unknown",
     floor |-> PyStr(1), direction |-> UP],
    [id |-> id, request_type |-> "internal", status |-> "pending",
     elevator_id |-> PyStr(1), destination_floor |-> Missing],
    [id |-> id, request_type |-> "other", status |-> "pending",
     floor |-> PyStr(1), direction |-> UP],
    [id |-> id, request_type |-> "None", status |-> "pending",
     floor |-> PyStr(1), direction |-> UP] }

\* a producer other than the ingress application adds an entry with XADD
AppendMalformed ==
  /\ Len(stream) < MaxRequests
  /\ \E m \in MalformedEntries(Len(stream) + 1) :
       stream' = Append(stream, m)
  /\ UNCHANGED <<group_exists, last_delivered, pel, acked, cache_store,
                 elevator_states, spc, phase, attempt, entries_to_ack,
                 yielded, batch, bpos, cmd_pubs, starts, handled, failed,
                 handled_now, pel_at_start, group_created_at>>
  /\ UNCHANGED <<ctlVars, hVars, xVars>>

PoisonNext ==
  \/ AppendRequest
  \/ AppendMalformed
  \/ SchedProgress

\* ------------------------------------------- start of the controller
\* start() up to its loop: subscribe, then _load_elevator_state: a stored
\* snapshot replaces the elevator built by __init__; when the key is absent
\* a warning is logged and nothing else is done
CtlLoadState ==
  /\ cpc = "load"
  /\ IF store_state = None
     THEN UNCHANGED <<current_floor, status, door_status, destinations>>
     ELSE LET elevator == ElevatorFromDict(store_state)
          IN /\ current_floor' = elevator.current_floor
             /\ status' = elevator.status
             /\ door_status' = elevator.door_status
             /\ destinations' = elevator.destinations
  /\ cpc' = "get_message"
  /\ UNCHANGED <<running, movement_task, mpc, next_floor, status_pubs,
                 store_state, cmd_log, live_tasks, restarts,
                 cmds_at_restart, subscribed>>
  /\ UNCHANGED <<schVars, hVars, xVars>>

\* a controller built by __init__ (floor 1, idle, closed, empty queue)
\* whose start() has subscribed; the store holds no snapshot of the
\* elevator, or the snapshot of an idle elevator
StartInit ==
  /\ current_floor = 1
  /\ status = IDLE
  /\ door_status = CLOSED
  /\ destinations = <<>>
  /\ running = TRUE
  /\ movement_task = "none"
  /\ cpc = "load"
  /\ mpc = "none"
  /\ next_floor = 0
  /\ status_pubs = <<>>
  /\ store_state \in
       {None} \cup {to_dict(f, IDLE, CLOSED, <<>>) : f \in 1..NUM_FLOORS}
  /\ cmd_log = <<>>
  /\ live_tasks = 0
  /\ restarts = 0
  /\ cmds_at_restart = 0
  /\ subscribed = TRUE
  /\ SchedInit
  /\ HandlerIdle

StartNext ==
  \/ CtlLoadState
  \/ CtlNext

\* the controller, with the scheduler side idle
Init == CtlInit /\ SchedInit /\ HandlerIdle

Next == CtlNext

Spec == Init /\ [][Next]_vars

\* the steps of the command loop after a command was received
CmdProgress ==
  \/ AddDestinationFinish
  \/ CmdOpenPersist
  \/ CmdCloseDoor
  \/ CmdClosePersist
  \/ CmdCloseDone
  \/ StopCancel

\* the steps of the movement task
MoveProgress ==
  \/ MoveStart
  \/ MoveDepartPersist
  \/ MoveArrive
  \/ MoveArrivePersist
  \/ MoveOpenDoor
  \/ MoveOpenPersist
  \/ MoveCloseDoor
  \/ MoveClosePersist
  \/ MoveNext

\* the event loop runs every coroutine that is ready, and every sleep and
\* every broker or store call returns; commands arrive or not
LiveSpec ==
  Init /\ [][Next]_vars /\ WF_vars(CmdProgress) /\ WF_vars(MoveProgress)

RestartSpec == Init /\ [][RestartNext]_vars

FaultSpec == Init /\ [][FaultNext]_vars

\* callers of the request constructors
CtorSpec == Init /\ [][CtorNext]_vars

\* scoring against the state store
SelectSpec == SelectInit /\ [][SelectNext]_vars

\* the controller stopped by its service
StopSpec == Init /\ [][StopNext]_vars

\* the scheduler service under its supervisor; main() and the scheduler
\* task run whenever they can, requests and signals come or not
ShutdownSpec ==
  /\ ShutdownInit
  /\ [][ShutdownNext]_vars
  /\ WF_vars(TaskProgress)
  /\ WF_vars(SupProgress)

\* the scheduler serving the internal requests of one elevator
OrderSpec == OrderInit /\ [][OrderNext]_vars

\* two instances in scheduler-group; scheduler-1 runs whenever it can,
\* scheduler-2 runs or stops, requests come or not
GroupSpec == GroupInit /\ [][GroupNext]_vars /\ WF_vars(SchedProgress)

\* the controller from the beginning of start()
StartSpec == StartInit /\ [][StartNext]_vars

\* callers of trim, through the client and through the HTTP endpoint
TrimSpec == TrimInit /\ [][TrimNext]_vars

\* the request pipeline: ingress, broker and scheduler, controller side idle
SchedSpecInit == SchedInit /\ CtlInit /\ current_floor = 1 /\ HandlerIdle

\* the whole pipeline; every process that can run does run, requests and
\* restarts of the controller come or not
SystemSpec ==
  /\ SchedSpecInit
  /\ [][SystemNext]_vars
  /\ WF_vars(SchedProgress)
  /\ WF_vars(Route)
  /\ WF_vars(ReceiveCommand \/ SysStopCancel)

\* the scheduler fed by the ingress and by other producers; it runs
\* whenever it can, the broker does not fail
PoisonSpec ==
  SchedSpecInit /\ [][PoisonNext]_vars /\ WF_vars(SchedProgress)

\* a store in which the snapshot of any elevator may be absent
LoadInit ==
  /\ BrokerInit
  /\ cache_store \in [1..NUM_ELEVATORS -> {None, DefaultSnapshot}]
  /\ elevator_states = [e \in 1..NUM_ELEVATORS |-> DefaultSnapshot]
  /\ CtlInit
  /\ current_floor = 1
  /\ HandlerIdle

LoadNext ==
  \/ AppendRequest
  \/ SchedProgress

\* the scheduler started on such a store
LoadSpec == LoadInit /\ [][LoadNext]_vars

SchedSpecNext == SchedNext

SchedSpec == SchedSpecInit /\ [][SchedSpecNext]_vars

\* ------------------------------------------------------- scheduler claims
\* the published commands that carry the id of stream entry e
PubsOf(e) == {i \in 1..Len(cmd_pubs) : cmd_pubs[i].request_id = e}

Entries == 1..Len(stream)

C4_NoRequestLost ==
  (group_exists /\ last_delivered = Len(stream)) =>
    \A e \in Entries : e \in pel \/ e \in acked

\* C4 amended: no request appended after the consumer group was created is
\* lost: it is still to be delivered to the group, or in the consumer's
\* pending list, or acknowledged.  (Requests appended before the group was
\* created with start id "$" are never delivered.)
C4_NoRequestLostAfterGroup ==
  /\ \A e \in Entries :
       (group_exists /\ e > group_created_at) =>
         \/ e > last_delivered
         \/ e \in pel /\ e \notin acked
         \/ e \in acked /\ e \notin pel
  /\ \A e \in Entries :
       (~group_exists \/ e <= group_created_at) =>
         e \notin pel /\ e \notin acked

\* a request appended after the group was created on a non-empty stream has
\* been delivered, and the scheduler was stopped before acknowledging it
C4_Witness ==
  /\ group_created_at > 0
  /\ spc = "stopped"
  /\ \E e \in Entries : e > group_created_at /\ e \in pel

\* C5: after a stop with delivered, unacknowledged entries, the restarted
\* scheduler re-reads exactly those entries in the last_id="0" pass, and it
\* reads with last_id=">" only after they are handled and acknowledged.
C5_PendingPassFirst ==
  /\ (phase = "pending" /\ spc \in {"handle", "ack"}) =>
       /\ SeqToSet(batch) = pel_at_start
       /\ Len(batch) = Cardinality(pel_at_start)
       /\ spc = "ack" => pel_at_start \subseteq handled_now
  /\ (phase = "main" /\ spc \in {"read", "handle", "ack"}) =>
       /\ pel_at_start \subseteq acked
       /\ \A e \in pel_at_start : handled[e] >= 1
       /\ SeqToSet(batch) \cap pel_at_start = {}

C5_Witness ==
  /\ phase = "main"
  /\ spc = "handle"
  /\ pel_at_start # {}
  /\ batch # <<>>
  /\ starts = 2

\* C6: an entry is acknowledged only after _handle_message has returned for
\* it: every step that acknowledges entries acknowledges entries handled in
\* the same with block, and acknowledge is called only when the whole batch
\* has been handled.
C6_AckAfterHandle ==
  [][/\ \A e \in acked' \ acked : e \in handled_now
     /\ (acked' # acked) => SeqToSet(batch) \subseteq handled_now]_vars

C6_Witness == acked # {} /\ \E e \in acked : handled[e] > 0

\* C7: an entry is acknowledged only if no exception occurred while it was
\* processed; an entry whose handling failed stays pending.
C7_AckOnlyIfNoException == \A e \in acked : e \notin failed

\* the score of the claim, in tenths: the distance, minus 1 if the elevator
\* is idle, times 0.8 if it moves in the request's direction and the request
\* floor is not behind it, times 5.0 if it moves otherwise
ClaimedScore(state, floor, direction) ==
  LET d == Abs(state.current_floor - floor)
      ahead == \/ state.status = MOVING_UP /\ direction = UP
                  /\ floor >= state.current_floor
               \/ state.status = MOVING_DOWN /\ direction = DOWN
                  /\ floor <= state.current_floor
  IN CASE state.status = IDLE -> 10 * (d - 1)
       [] state.status # IDLE /\ ahead -> 8 * d
       [] OTHER -> 50 * d

ScoreOfElevator(e) ==
  ClaimedScore(elevator_states[e], h_request.floor.v, h_request.direction)

\* C8: _select_best_elevator_for_external returns the elevator with the
\* minimal score, and the lowest id among the elevators of minimal score.
C8_SelectsMinimalScoreLowestId ==
  h_pc = "selected" =>
    /\ selected \in 1..NUM_ELEVATORS
    /\ \A e \in 1..NUM_ELEVATORS :
         /\ ScoreOfElevator(selected) <= ScoreOfElevator(e)
         /\ ScoreOfElevator(e) = ScoreOfElevator(selected) => selected <= e

\* a selection among elevators of equal minimal score, one idle, one moving
C8_Witness ==
  /\ h_pc = "selected"
  /\ \E e \in 1..NUM_ELEVATORS :
       /\ e # selected
       /\ ScoreOfElevator(e) = ScoreOfElevator(selected)
       /\ elevator_states[e].status # elevator_states[selected].status
       /\ ScoreOfElevator(e) > 0

\* C9: handling an internal request publishes exactly one command,
\* add_destination with the request's destination floor and id, on the
\* command topic of the request's elevator, whatever the cached states.
C9_InternalRequestPublishesAddDestination ==
  (h_pc = "handled" /\ h_request.request_type = "internal") =>
    /\ Len(cmd_pubs) = 1
    /\ cmd_pubs[1].command = "add_destination"
    /\ cmd_pubs[1].floor = h_request.destination_floor
    /\ cmd_pubs[1].request_id = h_request.id
    /\ cmd_pubs[1].channel = h_request.elevator_id.v

\* an internal request handled while its elevator is cached as moving and
\* another cached elevator is idle at the destination floor
C9_Witness ==
  /\ h_pc = "handled"
  /\ h_request.request_type = "internal"
  /\ Len(cmd_pubs) = 1
  /\ elevator_states[h_request.elevator_id.v].status # IDLE
  /\ \E e \in 1..NUM_ELEVATORS :
       /\ e # h_request.elevator_id.v
       /\ elevator_states[e].status = IDLE
       /\ elevator_states[e].current_floor = h_request.destination_floor.v

\* ------------------------------------------------------ controller claims
Moving == status \in {MOVING_UP, MOVING_DOWN}

NoDuplicates(q) == \A i, j \in 1..Len(q) : q[i] = q[j] => i = j

\* the controller has nothing left to do: the command loop waits for a
\* message and no movement task exists
Quiescent == cpc = "get_message" /\ mpc = "none"

\* C1: whenever status is MOVING_UP or MOVING_DOWN the door is CLOSED, under
\* any interleaving of command handling with the movement task.
C1_DoorClosedWhileMoving == Moving => door_status = CLOSED

\* C2: the destinations queue has no duplicate floor and does not contain
\* current_floor, also for commands handled during travel.
C2_QueueExcludesCurrentFloor ==
  NoDuplicates(destinations) /\ ~InQueue(current_floor, destinations)

\* the (status, door_status, current_floor) of a status message
Observable(m) == <<m.status, m.door_status, m.current_floor>>

\* the run consists of go_to_floor(b) alone, received by the idle elevator at
\* floor a # b, and has been served completely
TravelScenarioDone ==
  /\ Len(cmd_log) = 1
  /\ cmd_log[1].command = "go_to_floor"
  /\ ValidFloor(cmd_log[1].floor)
  /\ Len(status_pubs) > 0
  /\ status_pubs[1].current_floor # cmd_log[1].floor
  /\ Quiescent

TravelDirection(a, b) == IF b > a THEN MOVING_UP ELSE MOVING_DOWN

\* the four publications the travel scenario names, from floor a to floor b
TravelPublications(a, b) ==
  << <<TravelDirection(a, b), CLOSED, a>>, <<IDLE, CLOSED, b>>,
     <<IDLE, OPEN, b>>, <<IDLE, CLOSED, b>> >>

\* C10 as stated: go_to_floor(b) on the idle elevator at floor a # b
\* produces exactly the four publications {MOVING_*, CLOSED, a},
\* {IDLE, CLOSED, b}, {IDLE, OPEN, b}, {IDLE, CLOSED, b}.
C10_FourPublications ==
  TravelScenarioDone =>
    [i \in 1..Len(status_pubs) |-> Observable(status_pubs[i])]
      = TravelPublications(status_pubs[1].current_floor, cmd_log[1].floor)

\* C10 amended: the four publications are preceded by one publication
\* {IDLE, CLOSED, floor a} carrying the queue [b], made when the destination
\* is accepted; the final snapshot is {floor b, IDLE, CLOSED, empty queue}.
C10_TravelPublications ==
  TravelScenarioDone =>
    LET a == status_pubs[1].current_floor
        b == cmd_log[1].floor
    IN /\ status_pubs[1] = StatusMessage(a, IDLE, CLOSED, <<b>>)
       /\ [i \in 1..(Len(status_pubs) - 1) |-> Observable(status_pubs[i + 1])]
            = TravelPublications(a, b)
       /\ \A i \in 2..Len(status_pubs) : status_pubs[i].destinations = <<>>
       /\ store_state = to_dict(b, IDLE, CLOSED, <<>>)
       /\ to_dict(current_floor, status, door_status, destinations)
            = store_state

C10_Witness == TravelScenarioDone /\ current_floor = cmd_log[1].floor

\* the run consists of go_to_floor(f) alone, received by the idle elevator at
\* floor f with its door closed and its queue empty
DoorOnlyScenario ==
  /\ Len(cmd_log) = 1
  /\ cmd_log[1].command = "go_to_floor"
  /\ ValidFloor(cmd_log[1].floor)
  /\ Len(status_pubs) > 0
  /\ status_pubs[1].current_floor = cmd_log[1].floor

\* C11: go_to_floor(f) on the idle elevator at floor f produces exactly two
\* status publications, door OPEN then door CLOSED; current_floor, status and
\* the empty queue never change and no movement task is started.
C11_DoorOnlyPublications ==
  DoorOnlyScenario =>
    LET f == cmd_log[1].floor
    IN /\ current_floor = f
       /\ status = IDLE
       /\ destinations = <<>>
       /\ movement_task = "none" /\ mpc = "none" /\ live_tasks = 0
       /\ Len(status_pubs) <= 2
       /\ status_pubs[1] = StatusMessage(f, IDLE, OPEN, <<>>)
       /\ Len(status_pubs) = 2 =>
            status_pubs[2] = StatusMessage(f, IDLE, CLOSED, <<>>)
       /\ Quiescent => Len(status_pubs) = 2 /\ door_status = CLOSED

C11_Witness ==
  DoorOnlyScenario /\ Quiescent /\ Len(status_pubs) = 2

\* the command received by this step, if the step receives one
LastCommand == cmd_log'[Len(cmd_log')]

\* C12: handling go_to_floor(f), f valid, not the current floor and not
\* queued, makes f the head of destinations, ahead of every floor queued
\* before.
C12_GoToFloorPrepends ==
  [][(/\ Len(cmd_log') = Len(cmd_log) + 1
      /\ LastCommand.command = "go_to_floor"
      /\ ValidFloor(LastCommand.floor)
      /\ LastCommand.floor # current_floor
      /\ ~InQueue(LastCommand.floor, destinations))
     => (destinations' # <<>> /\ Head(destinations') = LastCommand.floor)]_vars

\* C13: handling add_destination(f), f valid and not the current floor,
\* appends f at the tail of destinations when f is not queued and changes no
\* elevator field when it is; when the handler returns a movement task is
\* running, and it is a new one only if none was running.
C13_AddDestinationAppends ==
  [][/\ (/\ Len(cmd_log') = Len(cmd_log) + 1
         /\ LastCommand.command = "add_destination"
         /\ ValidFloor(LastCommand.floor)
         /\ LastCommand.floor # current_floor)
        => /\ destinations' =
                IF InQueue(LastCommand.floor, destinations)
                THEN destinations
                ELSE Append(destinations, LastCommand.floor)
           /\ current_floor' = current_floor
           /\ status' = status
           /\ door_status' = door_status
     /\ (cpc = "add_pub" /\ cpc' = "get_message")
        => /\ mpc' # "none"
           /\ live_tasks' = 1
           /\ mpc # "none" => (mpc' = mpc /\ live_tasks' = live_tasks)]_vars

\* add_destination(f) was handled while f was queued and the movement task
\* had not yet run: the queue still holds f once
C13_Witness ==
  /\ Len(cmd_log) = 2
  /\ cmd_log[2].command = "add_destination"
  /\ cmd_log[1].command \in {"go_to_floor", "add_destination"}
  /\ cmd_log[1].floor = cmd_log[2].floor
  /\ cpc = "get_message"
  /\ mpc = "created"
  /\ destinations = <<cmd_log[2].floor>>

\* a go_to_floor or add_destination command whose floor is out of range
InvalidFloorCommand(c) ==
  c.command \in {"go_to_floor", "add_destination"} /\ ~ValidFloor(c.floor)

\* C14: after a go_to_floor or add_destination command with a floor outside
\* [1, NUM_FLOORS] the command loop keeps running and goes on handling
\* commands.
C14_InvalidFloorDropped ==
  (\E i \in 1..Len(cmd_log) : InvalidFloorCommand(cmd_log[i]))
    => (running /\ cpc \notin {"stopping", "stopped"})

\* C15: a message whose command is neither go_to_floor nor add_destination,
\* or whose payload is not a JSON object, is discarded: the step that
\* receives it changes no elevator field, publishes nothing, starts no
\* movement task, and leaves the command loop waiting for the next message.
C15_UnknownCommandDiscarded ==
  [][(/\ Len(cmd_log') = Len(cmd_log) + 1
      /\ LastCommand.command \notin {"go_to_floor", "add_destination"})
     => /\ UNCHANGED <<current_floor, status, door_status, destinations>>
        /\ UNCHANGED <<movement_task, mpc, live_tasks, status_pubs,
                       store_state>>
        /\ running'
        /\ cpc' = "get_message"]_vars

\* a payload that is not JSON and an unknown command were received, in that
\* order, by a controller that is still waiting for messages
C15_Witness ==
  /\ Len(cmd_log) = 2
  /\ cmd_log[1].command = "None"
  /\ cmd_log[2].command = "invalid_command"
  /\ running
  /\ cpc = "get_message"

\* every command received so far has a floor in range, if it has one
AllValid == \A i \in 1..Len(cmd_log) : ~InvalidFloorCommand(cmd_log[i])

\* C16: when a publish or a snapshot write fails, the controller keeps
\* running: the command loop goes on accepting commands, and when no
\* movement task is left and no command is being handled, no popped target
\* was abandoned with the status at MOVING_* and no floor is left queued.
C16_FailureTolerated ==
  AllValid =>
    /\ running
    /\ cpc \notin {"stopping", "stopped"}
    /\ Quiescent => (status = IDLE /\ destinations = <<>>)

\* C17: at most one movement task exists at any moment, and _movement_task
\* is None only when none exists (so the test made before creating a task
\* never overlooks a running one).
C17_SingleMovementTask ==
  /\ live_tasks <= 1
  /\ live_tasks = 1 <=> mpc # "none"
  /\ movement_task = "none" => live_tasks = 0

\* a second destination was accepted while the movement task was travelling:
\* the handler returned without creating a task
C17_Witness ==
  /\ Len(cmd_log) = 2
  /\ cpc = "get_message"
  /\ mpc = "travel"
  /\ destinations # <<>>
  /\ live_tasks = 1

Steady == status = IDLE /\ door_status = CLOSED /\ destinations = <<>>

\* C18: after any finite sequence of valid commands, if no further command
\* arrives, the controller eventually reaches status = IDLE, door CLOSED,
\* empty queue, and stays there.  (A run that received a command with an
\* invalid floor is outside the claim.)
C18_EventuallySteady == <>[](AllValid => Steady)

\* two valid commands were received, the elevator has moved, and it is idle
\* with its door closed and its queue empty, nothing left to run
C18_Witness ==
  /\ Len(cmd_log) = MaxCommands
  /\ AllValid
  /\ \A i \in 1..Len(cmd_log) :
       cmd_log[i].command \in {"go_to_floor", "add_destination"}
  /\ Quiescent
  /\ Steady
  /\ Len(status_pubs) > 0
  /\ status_pubs[1].current_floor # current_floor

\* C19: after a kill and a restart from the stored snapshot, with no command
\* received since, the elevator converges to status = IDLE with door CLOSED:
\* when nothing is left to run (no command being handled, no movement task)
\* it is in that state.
C19_RestartConverges ==
  (restarts > 0 /\ Len(cmd_log) = cmds_at_restart /\ Quiescent)
    => (status = IDLE /\ door_status = CLOSED)

\* C20: for every request read back from the stream and handled, from_dict
\* returns integer fields, so that scoring an external request succeeds and
\* every published command carries an integer floor.
C20_FromDictConvertsFields ==
  /\ \A e \in Entries :
       handled[e] > 0 =>
         IF stream[e].request_type = "external"
         THEN LET request == ExternalFromDict(stream[e])
              IN /\ request.floor.t = "int"
                 /\ ~SelectBestElevatorForExternal(elevator_states,
                                                   request).raised
         ELSE LET request == InternalFromDict(stream[e])
              IN /\ request.elevator_id.t = "int"
                 /\ request.destination_floor.t = "int"
  /\ \A i \in 1..Len(cmd_pubs) : cmd_pubs[i].floor.t = "int"

\* ------------------------------------------------------ model claims
\* the arguments a request object was built from are in range
ArgsInRange(o) ==
  IF o.request_type = "external"
  THEN ValidFloor(o.floor)
  ELSE /\ o.elevator_id >= 1 /\ o.elevator_id <= NUM_ELEVATORS
       /\ ValidFloor(o.destination_floor)

\* C21: constructing an ExternalRequest with floor outside [1, NUM_FLOORS],
\* or an InternalRequest with elevator_id outside [1, NUM_ELEVATORS] or
\* destination_floor outside [1, NUM_FLOORS], raises a validation error and
\* yields no request object.
C21_ConstructorsValidate ==
  \A i \in 1..Len(objects) : ~ArgsInRange(objects[i]) => objects[i].raised

\* C22: for every reachable elevator state e, from_dict(e.to_dict()) equals
\* e on id, current_floor, status, door_status and destinations, and on the
\* two remaining attributes of the entity (the travel and door times).
C22_SnapshotRoundTrip ==
  LET e == TheElevator
      r == from_dict(ElevatorToDict(e))
  IN /\ r.id = e.id
     /\ r.current_floor = e.current_floor
     /\ r.status = e.status
     /\ r.door_status = e.door_status
     /\ r.destinations = e.destinations
     /\ r = e

\* an elevator on its way to a floor with another floor queued, persisted
C22_Witness ==
  /\ status # IDLE
  /\ mpc = "travel"
  /\ destinations # <<>>
  /\ store_state.destinations = destinations
  /\ from_dict(ElevatorToDict(TheElevator)).destinations = destinations

\* exactly one of the two arguments of a trim call is given
ExactlyOne(c) == (c.min_id = None) # (c.maxlen = None)

\* C23: trim(stream, min_id, maxlen) fails with a bad-argument error and
\* deletes nothing when both min_id and maxlen are given or when neither is;
\* it trims only when exactly one of them is set.
C23_TrimNeedsExactlyOne ==
  [][(trim_call' # trim_call \/ stream' # stream) =>
       /\ ~ExactlyOne(trim_call') =>
            /\ trim_call'.outcome \in {"DataError", "HTTP400"}
            /\ stream' = stream
       /\ stream' # stream => ExactlyOne(trim_call')]_vars

\* ----------------------------------------------------- pipeline claims
\* request e was acknowledged after a command for it was published on the
\* topic of elevator 1
Dispatched(e) ==
  /\ e \in acked
  /\ \E i \in PubsOf(e) : cmd_pubs[i].channel = ELEVATOR_ID

\* elevator 1 is at the floor of request e with its door open
ServedNow(e) ==
  \E i \in PubsOf(e) :
    /\ cmd_pubs[i].channel = ELEVATOR_ID
    /\ current_floor = cmd_pubs[i].floor.v
    /\ door_status = OPEN

\* C24: every valid request that the scheduler acknowledges after publishing
\* a command eventually has the selected elevator at the requested floor
\* with its door open, also when the controller was not subscribed when the
\* command was published.
C24_DispatchedRequestServed ==
  \A e \in 1..MaxRequests : Dispatched(e) ~> ServedNow(e)

C26_CommandLoopOnlyAppends ==
  [][(mpc \notin {"none", "created"} /\
      (cpc' # cpc \/ cmd_log' # cmd_log)) =>
       /\ current_floor' = current_floor
       /\ status' = status
       /\ door_status' = door_status
       /\ Len(destinations') >= Len(destinations)
       /\ SubSeq(destinations', 1, Len(destinations)) = destinations]_vars

\* C27: while the elevator travels towards a target (status MOVING_UP or
\* MOVING_DOWN, the movement task between departure and arrival), the target
\* is still the head of destinations, in memory and in the snapshot
\* persisted during the travel.
C27_PoppedOnlyOnArrival ==
  (status # IDLE /\ mpc \in {"depart_pub", "travel"}) =>
    /\ destinations # <<>>
    /\ Head(destinations) = next_floor
    /\ mpc = "travel" =>
         /\ store_state.destinations # <<>>
         /\ Head(store_state.destinations) = next_floor

\* C28: after stop() of a controller has returned, the running flag is
\* false, the controller is unsubscribed, its movement task has exited, and
\* no step mutates, publishes or persists the elevator state.
C28_QuietAfterStop ==
  [][stop_pc = "returned" =>
       /\ ~running /\ ~subscribed /\ mpc = "none"
       /\ UNCHANGED <<current_floor, status, door_status, destinations,
                      status_pubs, store_state>>]_vars

C30_PersistentFailureEndsStart ==
  [][(phase = "main" /\ attempt + 1 >= MAX_RETRIES /\ SchedReadFail) =>
       spc' = "dead"]_vars

\* the read_group calls that failed in the current readgroup_with_ack
\* context (one of the counted attempts is the acknowledgement when the
\* context has already yielded)
ReadFailures == IF yielded THEN attempt - 1 ELSE attempt

\* a failed read_group call is retried unless it is the third failure in a
\* row, and a read_group call that returns entries hands them to the body
ReadRetried ==
  /\ (SchedReadFail /\ ~(spc' = "read" /\ attempt' = attempt + 1)) =>
       ReadFailures + 1 = MAX_RETRIES
  /\ (SchedRead /\ ReadGroupResult(LastId) # <<>>) =>
       /\ spc' = "handle"
       /\ batch' = ReadGroupResult(LastId)

C32_CommandsInRequestOrder ==
  \A i, j \in 1..Len(cmd_pubs) :
    (/\ i < j
     /\ cmd_pubs[i].channel = cmd_pubs[j].channel
     /\ cmd_pubs[j].request_id < cmd_pubs[i].request_id) =>
      \E k \in 1..(i - 1) : cmd_pubs[k].request_id = cmd_pubs[j].request_id

\* C33: an entry that is in the pending list of an instance that has
\* stopped for good is eventually acknowledged, another running instance of
\* the group having handled it.
C33_OrphanedEntriesHandled ==
  \A e \in 1..MaxRequests :
    (~peer_alive /\ e \in peer_pel) ~> (e \in acked)

\* the entry cannot be turned into a request
Unparseable(data) ==
  \/ data.request_type \notin {"external", "internal"}
  \/ FromDictRaises(data)

C35_SnapshotPersistedAtStart ==
  [][cmd_log' # cmd_log => store_state # None]_vars

\* C36: once the scheduler has loaded the elevator states, every elevator
\* has a snapshot in the store and startup goes on to the pending pass and
\* the main loop: start() has not failed.
C36_StartupToleratesMissingSnapshot ==
  (starts > 0 /\ spc # "load") =>
    /\ spc # "dead"
    /\ \A e \in 1..NUM_ELEVATORS : cache_store[e] # None

\* C37: the scheduler never writes an elevator snapshot: over its startup
\* and the handling of any requests no key elevator:status:{id} of the store
\* is created or changed.
C37_SchedulerReadsOnly == [][cache_store' = cache_store]_vars

\* the scheduler has started, handled and acknowledged a request and
\* published its command
C37_Witness ==
  \E e \in Entries : handled[e] > 0 /\ e \in acked /\ PubsOf(e) # {}

\* C38: what the controller publishes is persisted before it handles the
\* next command: when add_destination returns after accepting a floor, the
\* snapshot in the store is the one it published, with that floor in its
\* destinations.
C38_PublishedIsPersisted ==
  [][(cpc = "add_pub" /\ cpc' = "get_message") =>
       /\ store_state'.destinations = destinations'
       /\ InQueue(cmd_log[Len(cmd_log)].floor, store_state'.destinations)]_vars

\* C39: every floor accepted into the destination queue of a running
\* controller is eventually served: the elevator is at that floor with its
\* door OPEN, or the controller has stopped running in the meantime
Served(f) == current_floor = f /\ door_status = OPEN

C39_AcceptedFloorServed ==
  \A f \in 1..NUM_FLOORS :
    (running /\ InQueue(f, destinations)) ~> (Served(f) \/ ~running)

\* a floor accepted from a command while the elevator was elsewhere is being
\* served: the movement task has arrived there and opened the door
C39_Witness ==
  /\ running
  /\ mpc = "open_pub"
  /\ cmd_log # <<>>
  /\ \E i \in 1..Len(cmd_log) : cmd_log[i].floor = current_floor
  /\ current_floor # 1
  /\ Served(current_floor)

\* C40: every entry a read_group call of the scheduler returns is passed to
\* _handle_message before the next read_group call: a call is issued only
\* when the batch of the call before it has been handled, and the entries it
\* returns become the batch that is handled next (or start() has ended)
C40_ReturnedEntriesHandled ==
  [][SchedRead =>
       LET result == ReadGroupResult(LastId)
       IN /\ \A i \in 1..Len(batch) : batch[i] \in handled_now
          /\ result # <<>> =>
               \/ spc' = "handle" /\ batch' = result
               \/ spc' = "dead"]_vars

====
